---- MODULE Spec2Model ----
(***************************************************************************)
(* Cost-aware trip-plan generation (trip-django).                          *)
(*                                                                         *)
(* Part 1  texts and the completeness test                                 *)
(* Part 2  the job orchestrator: status polls, background runs,            *)
(*         the GeneratedPlan table (specification Spec / FairSpec)         *)
(* Part 3  the cost monitor: the clock, the cache entries of the daily     *)
(*         and hourly counters, track_api_call step by step (TrackSpec),   *)
(*         should_allow_api_call on its own (GuardSpec)                    *)
(* Part 4  the paid call sites, cached and uncached (BudgetSpec,            *)
(*         PlaceSpec, PlanSpec, OutageSpec)                                *)
(***************************************************************************)
EXTENDS Integers, Sequences, FiniteSets, TLC

(***************************************************************************)
(* Bounds of the model.                                                    *)
(***************************************************************************)
MaxRuns == 2
CallCap == 2
\* The clock: a tick is 1/TicksPerUnit of the unit int() truncates to; a
\* day is scaled down to HoursPerDay units and the clock stops ExtraTicks
\* after the first midnight.
TicksPerUnit == 2
HoursPerDay == 2
ExtraTicks == 1
\* track_api_call invocations started in one behaviour, and the threads
\* that make them.
MaxTrackCalls == 3
MaxTrackers == 2
\* GuardSpec: the largest counter value drawn.
MaxCount == 101
\* Place, autocomplete and cached plan call sites entered in one behaviour;
\* the threads that enter the cached ones.
MaxLookups == 3
MaxRequests == 2
\* The longest trip and the largest party typed into the form.
MaxDuration == 5
MaxTravelers == 2

(***************************************************************************)
(* Program constants.                                                      *)
(***************************************************************************)
CompleteThreshold == 50
max_retries == 3
daily_limit == 100
\* Cache lifetimes: 86400 * 7, 3600, 86400 and 86400 * 3 seconds.
place_cache_days == 7
negative_cache_hours == 1
autocomplete_cache_days == 1
plan_cache_days == 3
\* The time of something that has not happened.
Never == 0 - 1
\* PlacesAutocompleteAPIView.get: cache.set(cache_key, response_data, 60 * 60).
endpoint_cache_hours == 1
\* Ticket rows the model lets the update form create.
MaxTickets == 1
\* The largest value of a hit or miss counter get_cache_stats is asked with.
MaxStat == 9
\* cost_optimized_trip_generation: the length a plan must exceed to be kept.
OptimizedThreshold == 100
\* generate_clean_pdf: "for location in locations[:5]".
MaxEnrich == 5

(***************************************************************************)
(* Part 1: texts.  A text is a sequence of characters; "x" stands for any  *)
(* non-blank character, " " and "\n" are the blanks str.strip() removes.   *)
(***************************************************************************)
RECURSIVE Rep(_, _)
Rep(c, n) == IF n = 0 THEN << >> ELSE <<c>> \o Rep(c, n - 1)

IsSpace(c) == c \in {" ", "\n"}

RECURSIVE LStrip(_)
LStrip(s) == IF s # << >> /\ IsSpace(Head(s)) THEN LStrip(Tail(s)) ELSE s

RECURSIVE RStrip(_)
RStrip(s) ==
    IF s # << >> /\ IsSpace(s[Len(s)]) THEN RStrip(SubSeq(s, 1, Len(s) - 1)) ELSE s

\* str.strip()
Strip(s) == RStrip(LStrip(s))

\* Mutant of IsCompleteContent: the boundary taken as >= 50.
IsCompleteContentAtLeast(c) == c # << >> /\ Len(Strip(c)) >= CompleteThreshold

\* `content and len(content.strip()) > 50`: the completeness test shared by
\* the status views and the background run.
IsCompleteContent(c) == c # << >> /\ Len(Strip(c)) > CompleteThreshold

(***************************************************************************)
(* Part 2: the job orchestrator.                                           *)
(***************************************************************************)
\* TripPlanRequest rows that exist (the trip request was created through the
\* form before the loading page starts polling); MissingId has no row.
TripIds == {1}
MissingId == 2
PollIds == TripIds \cup {MissingId}
Runs == 1 .. MaxRuns

\* What the LLM collaborator can hand back on a successful completion: a
\* short answer (exactly 50 characters once stripped) and a full itinerary,
\* each as the raw message content (blanks included).
LLMTexts ==
    { <<" ">> \o Rep("x", CompleteThreshold) \o <<"\n">>,
      <<"\n">> \o Rep("x", CompleteThreshold + 1) \o <<" ">> }
ErrorKinds == {"timeout", "connection", "quota", "unknown"}

NoText == <<"-">>
NoPlan == 0
\* One background thread: its position, the trip it works for, the retry
\* loop's attempt, trip_plan_text, and the GeneratedPlan object it holds in
\* memory (primary key, created flag, pdf_file as loaded, and whether the
\* INSERT of get_or_create hit the unique constraint).
IdleRun == [pc |-> "idle", trip |-> 0, attempt |-> 0, err |-> "none", text |-> NoText,
            plan |-> NoPlan, created |-> FALSE, pdf |-> "none",
            integrityError |-> FALSE]

VARIABLES
    plans,       \* the GeneratedPlan table: a set of rows
    nextPlanId,  \* the table's auto-increment primary key
    run,         \* the background threads (generate_trip_plan_background)
    llmCalls,    \* per trip: LLM completions requested so far (capped)
    lastPoll,    \* the last status poll: the id asked for and the answer
    now,         \* the clock (timezone.now()), in ticks
    daily,       \* cache entries cost_monitor_<service>_<date>
    hourly,      \* cache entries hourly_<service>_<date>_<hour>
    trk,         \* the threads inside track_api_call
    calls,       \* per service and date: track_api_call invocations keyed to it
    allowed,     \* the last should_allow_api_call: the service and the answer
    extCalls,    \* per service: requests sent to the paid API
    placeCache,  \* cache entries gmaps_<md5(place_details:...)>
    acCache,     \* cache entries gmaps_<md5(autocomplete:...)>
    planCache,   \* cache entries ai_<md5(trip_plan:...)>
    cacheHits,   \* cache entry cache_monitor_hits
    cacheMisses, \* cache entry cache_monitor_misses
    req,         \* the threads inside a cached call site
    started,     \* place, autocomplete and cached plan call sites entered so far
    storeUp,     \* the cache backend answers
    resolved,    \* per place: when details were last stored
    failed,      \* per place: when a lookup last ended without a place
    generated,   \* per plan key: the text the LLM last gave, and when
    trips,       \* the TripPlanRequest table: per id, the fields of the row
    llm,         \* the LLM collaborator: answering ("up") or out of quota
    out,         \* the last text function applied on its own, and its result
    input,       \* the text handed to a text function
    render,      \* the document renderer at work: its position and its locals
    epCache,     \* cache entries autocomplete_<query> of the API endpoint
    ep,          \* the requests inside PlacesAutocompleteAPIView.get
    served,      \* per endpoint key: the response last stored, and when
    tickets,     \* rows of the Ticket table
    stats,       \* the last answer of get_cache_stats
    keyed        \* the last two cache keys computed, and from what

jobVars == <<plans, nextPlanId, run, llmCalls, lastPoll>>
monVars == <<now, daily, hourly, trk, calls, allowed>>
budgetVars == <<extCalls, placeCache, acCache, planCache, cacheHits, cacheMisses,
                req, started, storeUp, resolved, failed, generated>>
webVars == <<epCache, ep, served, tickets, stats, keyed>>
genVars == <<trips, llm, out, input, render, epCache, ep, served, tickets,
          stats, keyed>>
vars == <<plans, nextPlanId, run, llmCalls, lastPoll,
          now, daily, hourly, trk, calls, allowed,
          extCalls, placeCache, acCache, planCache, cacheHits, cacheMisses,
          req, started, storeUp, resolved, failed, generated,
          trips, llm, out, input, render, epCache, ep, served, tickets,
          stats, keyed>>

PlansOf(t) == {p \in plans : p.trip = t}
HasPlan(t) == PlansOf(t) # {}
\* trip_request.generated_plan (the reverse one-to-one accessor)
PlanOf(t) == CHOOSE p \in PlansOf(t) : TRUE
PlanComplete(t) == HasPlan(t) /\ IsCompleteContent(PlanOf(t).content)

Min(a, b) == IF a < b THEN a ELSE b

(***************************************************************************)
(* The trip request form and the template generators.                      *)
(***************************************************************************)
\* What a user can type into the fields of TripPlanRequestForm.
Destinations == {"Paris", "Oslo"}
Durations == (0 - 1) .. MaxDuration
TravelerCounts == 0 .. MaxTravelers
Budgets == {0 - 1, 0, 900}
Submissions ==
    [destination : Destinations, duration : Durations,
     travelers : TravelerCounts, budget : Budgets]

\* TripPlanRequestForm.clean_budget: the one field check of the form.
CleanBudgetRaises(budget) == budget < 0

\* form.is_valid(): duration and number_of_travelers are IntegerFields
\* without validators (the 'min' attributes of the widgets are only HTML).
FormIsValid(s) == ~CleanBudgetRaises(s.budget)

\* The rows TripRequestCreateView.post can have saved.
SavedTrips == {s \in Submissions : FormIsValid(s)}

\* TripSpec{destination=Paris, durationDays=3, totalBudget=900, travelerCount=2}
ParisTrip == [destination |-> "Paris", duration |-> 3, travelers |-> 2, budget |-> 900]

Abs(n) == IF n < 0 THEN 0 - n ELSE n
DigitChars == <<"0", "1", "2", "3", "4", "5", "6", "7", "8", "9">>
IsDigit(c) == \E k \in 1 .. 10 : DigitChars[k] = c
DigitValue(c) == (CHOOSE k \in 1 .. 10 : DigitChars[k] = c) - 1
RECURSIVE Digits(_)
\* str() of a natural number, one character per digit.
Digits(n) ==
    IF n < 10 THEN <<DigitChars[n + 1]>>
    ELSE Digits(n \div 10) \o <<DigitChars[(n % 10) + 1]>>
\* str() of an integer.
Str(n) == IF n < 0 THEN <<"-">> \o Digits(0 - n) ELSE Digits(n)

\* num / den for naturals, den > 0, rounded to the nearest integer with ties
\* going to the even one (what the format ".0f" prints).
RoundHalfEven(num, den) ==
    LET q == num \div den
        r == num - q * den
    IN  IF 2 * r < den THEN q
        ELSE IF 2 * r > den THEN q + 1
        ELSE IF q % 2 = 0 THEN q ELSE q + 1

\* "daily_budget = float(budget) / duration / travelers" raises
\* ZeroDivisionError when a divisor is 0.
DivisionByZero(s) == s.duration = 0 \/ s.travelers = 0

\* f"{daily_budget:.0f}" for a budget that is not negative: the sign is that
\* of the float (0.0 / -1 is -0.0, which prints as "-0").
DailyBudgetText(s) ==
    LET negative == (s.duration < 0) # (s.travelers < 0)
        digits == Digits(RoundHalfEven(s.budget, Abs(s.duration) * Abs(s.travelers)))
    IN  IF negative THEN <<"-">> \o digits ELSE digits

\* The day blocks of generate_enhanced_fallback_plan: "Day 1" always, "Day 2"
\* and "Day 3" by their conditions, then "Day {duration}: Departure", the
\* one block without a "Daily estimate" line.
EnhancedFallbackBlocks(duration) ==
    <<[day |-> 1, total |-> TRUE]>>
    \o (IF duration >= 2 THEN <<[day |-> 2, total |-> TRUE]>> ELSE << >>)
    \o (IF duration >= 3 THEN <<[day |-> 3, total |-> TRUE]>> ELSE << >>)
    \o (IF duration > 1 THEN <<[day |-> duration, total |-> FALSE]>> ELSE << >>)

\* The day blocks of generate_template_fallback: "for day in range(1, days + 1)".
TemplateFallbackBlocks(days) ==
    [day \in 1 .. days |-> [day |-> day, total |-> TRUE]]

\* The day blocks of CostOptimizedAIService._generate_template_plan: the
\* template has "Day 1" and "Day 2" written out, whatever the duration.
TemplatePlanBlocks(duration) ==
    <<[day |-> 1, total |-> TRUE], [day |-> 2, total |-> TRUE]>>

PerPerson == <<" ", "p", "e", "r", " ", "p", "e", "r", "s", "o", "n">>
\* One block as text: the header line "Day N: ..." and, for a block that has
\* one, the line "... $<daily budget> per person".
BlockText(b, cost) ==
    <<"D", "a", "y", " ">> \o Str(b.day) \o <<":", "\n">>
    \o (IF b.total THEN <<"$">> \o cost \o PerPerson \o <<"\n">> ELSE << >>)
RECURSIVE BlocksText(_, _)
BlocksText(blocks, cost) ==
    IF blocks = << >> THEN << >>
    ELSE BlockText(Head(blocks), cost) \o BlocksText(Tail(blocks), cost)

\* The fixed prose of a template, longer than 50 characters in each of them.
Prose == Rep("x", CompleteThreshold + 10)

\* generate_enhanced_fallback_plan: an f-string that starts and ends with a
\* newline; the overview has the line "Daily Budget per Person: $...".
EnhancedFallbackText(s) ==
    <<"\n", s.destination, "\n", "$">> \o DailyBudgetText(s) \o <<"\n">>
    \o BlocksText(EnhancedFallbackBlocks(s.duration), DailyBudgetText(s))
    \o Prose \o <<"\n">>

\* generate_template_fallback
TemplateFallbackText(s) ==
    <<s.destination, "\n">>
    \o BlocksText(TemplateFallbackBlocks(s.duration), DailyBudgetText(s))
    \o Prose \o <<"\n">>

\* CostOptimizedAIService._generate_template_plan
TemplatePlanText(s) ==
    <<s.destination, "\n">>
    \o BlocksText(TemplatePlanBlocks(s.duration), DailyBudgetText(s))
    \o Prose

\* The fallback text of the background job for trip t.
FallbackText(t) == EnhancedFallbackText(trips[t])

Generators == {"enhanced_fallback", "template_fallback", "template_plan"}
\* No link made yet.
NoLink == [fn |-> "none", answer |-> "none", url |-> "none", calls |-> 0,
           raised |-> FALSE]
\* The renderer at rest.  Its locals: the text, the locations it resolves
\* (todo), what each lookup gave (answers), location_details (details), the
\* line being linked, the locations already visited on it, the last
\* maps_link, the document and how the caller's save went.
IdleRender == [pc |-> "idle", renderer |-> "none", trip |-> 0, text |-> NoText,
               todo |-> {}, answers |-> << >>, details |-> {},
               line |-> 0, linetext |-> NoText, visited |-> {},
               link |-> NoLink, doc |-> "none", stored |-> "none"]
NoOutput == [gen |-> "none", trip |-> 0, raised |-> "none", blocks |-> << >>,
             text |-> NoText, locations |-> {}]

\* One of the three generators applied to the row of trip t.
Generate(g, t) ==
    /\ out = NoOutput
    /\ out' =
         IF DivisionByZero(trips[t])
         THEN [NoOutput EXCEPT !.gen = g, !.trip = t, !.raised = "ZeroDivisionError"]
         ELSE [gen |-> g,
               trip |-> t,
               locations |-> {},
               raised |-> "none",
               blocks |-> CASE g = "enhanced_fallback" ->
                                 EnhancedFallbackBlocks(trips[t].duration)
                            [] g = "template_fallback" ->
                                 TemplateFallbackBlocks(trips[t].duration)
                            [] OTHER -> TemplatePlanBlocks(trips[t].duration),
               text |-> CASE g = "enhanced_fallback" -> EnhancedFallbackText(trips[t])
                          [] g = "template_fallback" -> TemplateFallbackText(trips[t])
                          [] OTHER -> TemplatePlanText(trips[t])]
    /\ UNCHANGED <<trips, llm, input, render, webVars>>
    /\ UNCHANGED <<jobVars, monVars, budgetVars>>

\* Hand the result to the caller; the generator can be applied again.
GenerateReturn ==
    /\ out # NoOutput
    /\ out' = NoOutput
    /\ UNCHANGED <<trips, llm, input, render, webVars>>
    /\ UNCHANGED <<jobVars, monVars, budgetVars>>

\* No response given yet.
NoResponse == [http |-> 0, suggestions |-> "none", hit |-> FALSE]
\* A request thread of the autocomplete endpoint at rest.
IdleEp == [pc |-> "idle", query |-> NoText, key |-> NoText, resp |-> NoResponse]
\* get_cache_stats not asked yet.  A rate is kept as the exact fraction
\* num / den.
NoStats == [asked |-> FALSE, hits |-> 0, misses |-> 0,
            hit_rate |-> [num |-> 0, den |-> 1]]
\* No cache key computed yet.
NoKeys == [first |-> << >>, second |-> << >>, keys |-> << >>]
\* An empty cache, no request, no ticket.
WebInit ==
    /\ epCache = << >>
    /\ ep = [p \in 1 .. MaxRequests |-> IdleEp]
    /\ served = << >>
    /\ tickets = 0
    /\ stats = NoStats
    /\ keyed = NoKeys

GenInit ==
    /\ trips = [t \in TripIds |-> ParisTrip]
    /\ llm = "up"
    /\ out = NoOutput
    /\ input = NoText
    /\ render = IdleRender
    /\ WebInit

JobInit ==
    /\ plans = {}
    /\ nextPlanId = 1
    /\ run = [r \in Runs |-> IdleRun]
    /\ llmCalls = [t \in TripIds |-> 0]
    /\ lastPoll = [id |-> 0, status |-> "none"]

\* The status a poll answers for an existing trip request.
StatusFor(t) == IF PlanComplete(t) THEN "completed" ELSE "generating"

\* TripStatusAPIView.get for an id without a TripPlanRequest row.
GetStatusMissing(i) ==
    /\ i \notin TripIds
    /\ lastPoll' = [id |-> i, status |-> "error"]
    /\ UNCHANGED <<plans, nextPlanId, run, llmCalls>>
    /\ UNCHANGED <<monVars, budgetVars, genVars>>

\* TripStatusAPIView.get, the artifact is complete: no thread is started.
GetStatusCompleted(t) ==
    /\ t \in TripIds
    /\ StatusFor(t) = "completed"
    /\ lastPoll' = [id |-> t, status |-> "completed"]
    /\ UNCHANGED <<plans, nextPlanId, run, llmCalls>>
    /\ UNCHANGED <<monVars, budgetVars, genVars>>

\* TripStatusAPIView.get, no artifact or an incomplete one: a new daemon
\* thread running generate_trip_plan_background is started, unconditionally.
GetStatusGenerating(t) ==
    /\ t \in TripIds
    /\ StatusFor(t) = "generating"
    /\ \E r \in Runs :
         /\ run[r].pc = "idle"
         /\ \A q \in Runs : q < r => run[q].pc # "idle"
         /\ run' = [run EXCEPT ![r] = [IdleRun EXCEPT !.pc = "start", !.trip = t]]
    /\ lastPoll' = [id |-> t, status |-> "generating"]
    /\ UNCHANGED <<plans, nextPlanId, llmCalls>>
    /\ UNCHANGED <<monVars, budgetVars, genVars>>

\* TripStatusAPIView.get
GetStatus(i) == GetStatusMissing(i) \/ GetStatusCompleted(i) \/ GetStatusGenerating(i)

\* Mutant of UniqueViolation: trip_request declared as a plain ForeignKey.
NoUniqueConstraint(t) == FALSE

\* OneToOneField(TripPlanRequest): the unique constraint on trip_request_id
\* rejects an INSERT when the trip already has a GeneratedPlan row.
UniqueViolation(t) == HasPlan(t)

\* UPDATE ... WHERE id = pk, as Model.save() issues it for a loaded object.
UpdatePlan(id, content, pdf) ==
    {IF p.id = id THEN [p EXCEPT !.content = content, !.pdf = pdf] ELSE p : p \in plans}

\* generate_trip_plan_background, lines 339-353: the duplicate check.
RunStart(r) ==
    /\ run[r].pc = "start"
    /\ run' = [run EXCEPT ![r] =
                 IF PlanComplete(run[r].trip) THEN IdleRun ELSE [@ EXCEPT !.pc = "llm"]]
    /\ UNCHANGED <<plans, nextPlanId, llmCalls, lastPoll>>
    /\ UNCHANGED <<monVars, budgetVars, genVars>>

\* Mutant of LastAttempt: the loop gives up one attempt later.
LastAttemptLate(attempt) == attempt = max_retries

\* "if attempt == max_retries - 1", with attempt counted from 0.
LastAttempt(attempt) == attempt = max_retries - 1

\* One pass of the retry loop of AIService.generate_optimized_trip_plan: the
\* completion either returns a message (stripped and returned), or raises;
\* after the last attempt the exception reaches the background function,
\* which substitutes generate_enhanced_fallback_plan.  An exception raised
\* by that generator leaves the handler of line 361 and is logged by the
\* one of line 419: the thread ends and nothing is persisted.
RunLLM(r) ==
    /\ run[r].pc = "llm"
    /\ llmCalls' = [llmCalls EXCEPT ![run[r].trip] = Min(@ + 1, CallCap)]
    /\ \/ /\ llm = "up"
          /\ \E raw \in LLMTexts :
               run' = [run EXCEPT ![r] =
                         [@ EXCEPT !.pc = "goc", !.err = "none", !.text = Strip(raw)]]
       \/ \E kind \in ErrorKinds :
            /\ llm = "quota" => kind = "quota"
            /\ run' = [run EXCEPT ![r] =
                         IF ~LastAttempt(run[r].attempt)
                         THEN [@ EXCEPT !.attempt = @ + 1, !.err = kind]
                         ELSE IF DivisionByZero(trips[run[r].trip])
                         THEN [IdleRun EXCEPT !.err = "ZeroDivisionError"]
                         ELSE [@ EXCEPT !.pc = "goc", !.err = "none",
                                        !.text = FallbackText(run[r].trip)]]
    /\ UNCHANGED <<plans, nextPlanId, lastPoll>>
    /\ UNCHANGED <<monVars, budgetVars, genVars>>

\* GeneratedPlan.objects.get_or_create, the lookup.
RunGetOrCreate(r) ==
    /\ run[r].pc = "goc"
    /\ run' = [run EXCEPT ![r] =
                 IF HasPlan(run[r].trip)
                 THEN [@ EXCEPT !.pc = "save", !.plan = PlanOf(run[r].trip).id,
                                !.created = FALSE, !.pdf = PlanOf(run[r].trip).pdf]
                 ELSE [@ EXCEPT !.pc = "create"]]
    /\ UNCHANGED <<plans, nextPlanId, llmCalls, lastPoll>>
    /\ UNCHANGED <<monVars, budgetVars, genVars>>

\* GeneratedPlan.objects.get_or_create, the INSERT after a failed lookup; on
\* IntegrityError get_or_create fetches the row that won.
RunCreate(r) ==
    /\ run[r].pc = "create"
    /\ IF UniqueViolation(run[r].trip)
       THEN /\ run' = [run EXCEPT ![r] =
                         [@ EXCEPT !.pc = "save", !.plan = PlanOf(run[r].trip).id,
                                   !.created = FALSE, !.pdf = PlanOf(run[r].trip).pdf,
                                   !.integrityError = TRUE]]
            /\ UNCHANGED <<plans, nextPlanId>>
       ELSE /\ plans' = plans \cup
                   {[id |-> nextPlanId, trip |-> run[r].trip,
                     content |-> run[r].text, pdf |-> "none"]}
            /\ nextPlanId' = nextPlanId + 1
            /\ run' = [run EXCEPT ![r] =
                         [@ EXCEPT !.pc = "save", !.plan = nextPlanId,
                                   !.created = TRUE, !.pdf = "none"]]
    /\ UNCHANGED <<llmCalls, lastPoll>>
    /\ UNCHANGED <<monVars, budgetVars, genVars>>

\* "if created or not generated_plan.pdf_file": the document is rendered.
Renders(r) == run[r].created \/ run[r].pdf = "none"

\* Mutant of GenerateTripPlanPdf: the renderer lets its error out.
GenerateTripPlanPdfRaises(broken) == IF broken THEN "raised" ELSE "pdf"

\* generate_trip_plan_pdf: the PDF ReportLab built, or, when anything in it
\* raised, the text file of _generate_fallback_text_file.
GenerateTripPlanPdf(broken) == IF broken THEN "txt" ELSE "pdf"

\* Lines 377-415: render the document (the renderer hands back a PDF, or a
\* plain-text file when it failed), store it and save the row; when the
\* document already exists only the content is saved.  A storage error
\* raises into the handler of line 406, which fetches the row again and
\* saves just the text content.
RunSaveWith(r, broken, stored) ==
    /\ run[r].pc = "save"
    /\ IF Renders(r)
       THEN LET doc == GenerateTripPlanPdf(broken)
            IN  plans' = IF doc # "raised" /\ stored
                         THEN UpdatePlan(run[r].plan, run[r].text, doc)
                         ELSE UpdatePlan(PlanOf(run[r].trip).id, run[r].text,
                                         PlanOf(run[r].trip).pdf)
       ELSE plans' = UpdatePlan(run[r].plan, run[r].text, run[r].pdf)
    /\ run' = [run EXCEPT ![r] = IdleRun]
    /\ UNCHANGED <<nextPlanId, llmCalls, lastPoll>>
    /\ UNCHANGED <<monVars, budgetVars, genVars>>

RunSave(r) == \E broken, stored \in BOOLEAN : RunSaveWith(r, broken, stored)

RunStep(r) ==
    \/ RunStart(r)
    \/ RunLLM(r)
    \/ RunGetOrCreate(r)
    \/ RunCreate(r)
    \/ RunSave(r)

JobNext ==
    \/ \E i \in PollIds : GetStatus(i)
    \/ \E r \in Runs : RunStep(r)

(***************************************************************************)
(* Part 3.  The cost monitor (home/cost_monitor.py).                       *)
(*                                                                         *)
(* The clock counts ticks.  TicksPerUnit ticks make the unit in which a    *)
(* cache timeout is given and to which int() truncates; a model hour is    *)
(* one such unit and a model day is HoursPerDay of them, so that the       *)
(* 25-hour timeout of the hourly entries is HoursPerDay + 1 units.         *)
(***************************************************************************)
\* get_daily_usage, line 110: the services that have a daily counter.
Services == {"openai", "google_maps", "google_places"}

DayTicks == HoursPerDay * TicksPerUnit
EndOfTime == DayTicks + ExtraTicks
\* timezone.now().date() and timezone.now().hour (counted from tick 0)
Day(t) == t \div DayTicks
Hour(t) == t \div TicksPerUnit
Days == 0 .. place_cache_days
Hours == 0 .. Hour(EndOfTime)
Trackers == 1 .. MaxTrackers

\* A cache entry is a value and the tick at which it expires; a key that was
\* never set, or was set with a timeout of zero or less, has no entry.
Absent == [val |-> 0, exp |-> 0]
Live(e) == e.exp > now
\* cache.get(key, default)
CacheGet(e, default) == IF Live(e) THEN e.val ELSE default
\* cache.set(key, value, timeout): the entry that results
CacheSet(v, timeout) ==
    IF timeout <= 0 THEN Absent ELSE [val |-> v, exp |-> now + timeout * TicksPerUnit]
\* int(timedelta.total_seconds()): truncation towards zero
IntTrunc(ticks) ==
    IF ticks >= 0 THEN ticks \div TicksPerUnit ELSE 0 - ((0 - ticks) \div TicksPerUnit)

\* _get_today_key
TodayKey(svc) == <<svc, Day(now)>>
\* cache.get(self._get_today_key(service), 0)
TodayCount(svc) == CacheGet(daily[TodayKey(svc)], 0)

\* Mutant of ShouldAllowApiCall: the comparison is > instead of >=.
ShouldAllowAboveLimit(svc) == ~(TodayCount(svc) > daily_limit)

\* should_allow_api_call
ShouldAllowApiCall(svc) == ~(TodayCount(svc) >= daily_limit)

IdleTrk == [pc |-> "idle", svc |-> "none", key |-> 0, count |-> 0,
            tomorrow |-> 0, hkey |-> 0]

MonInit ==
    /\ now = 0
    /\ daily = [k \in Services \X Days |-> Absent]
    /\ hourly = [k \in Services \X Hours |-> Absent]
    /\ trk = [p \in Trackers |-> IdleTrk]
    /\ calls = [k \in Services \X Days |-> 0]
    /\ allowed = [svc |-> "none", result |-> FALSE, raised |-> FALSE]

RECURSIVE SumOver(_, _)
SumOver(f, S) ==
    IF S = {} THEN 0
    ELSE LET k == CHOOSE x \in S : TRUE IN f[k] + SumOver(f, S \ {k})
\* track_api_call invocations started so far
TotalCalls == SumOver(calls, Services \X Days)

\* Time passes.
Tick ==
    /\ now < EndOfTime
    /\ now' = now + 1
    /\ UNCHANGED <<daily, hourly, trk, calls, allowed>>
    /\ UNCHANGED <<jobVars, budgetVars, genVars>>

\* track_api_call, lines 25-26: the key of today's counter is built and the
\* counter is read and incremented in a local.
TrackBegin(p, svc) ==
    /\ trk[p].pc = "idle"
    /\ TotalCalls < MaxTrackCalls
    /\ trk' = [trk EXCEPT ![p] =
                 [IdleTrk EXCEPT !.pc = "tomorrow", !.svc = svc, !.key = Day(now),
                                 !.count = TodayCount(svc) + 1]]
    /\ calls' = [calls EXCEPT ![TodayKey(svc)] = @ + 1]
    /\ UNCHANGED <<now, daily, hourly, allowed>>
    /\ UNCHANGED <<jobVars, budgetVars, genVars>>

\* track_api_call, line 28: the midnight that follows the present moment.
TrackTomorrow(p) ==
    /\ trk[p].pc = "tomorrow"
    /\ trk' = [trk EXCEPT ![p] =
                 [@ EXCEPT !.pc = "set", !.tomorrow = (Day(now) + 1) * DayTicks]]
    /\ UNCHANGED <<now, daily, hourly, calls, allowed>>
    /\ UNCHANGED <<jobVars, budgetVars, genVars>>

\* track_api_call, lines 29-31: the whole seconds left until that midnight
\* become the timeout with which the local is written back under the key.
TrackSet(p) ==
    /\ trk[p].pc = "set"
    /\ daily' = [daily EXCEPT ![<<trk[p].svc, trk[p].key>>] =
                   CacheSet(trk[p].count, IntTrunc(trk[p].tomorrow - now))]
    /\ trk' = [trk EXCEPT ![p] = [@ EXCEPT !.pc = "hourly"]]
    /\ UNCHANGED <<now, hourly, calls, allowed>>
    /\ UNCHANGED <<jobVars, budgetVars, genVars>>

\* _track_hourly_usage, lines 43-47: cache.incr on the key of this hour; a
\* key without an entry raises ValueError.
TrackHourlyIncr(p) ==
    /\ trk[p].pc = "hourly"
    /\ LET k == <<trk[p].svc, Hour(now)>> IN
         IF Live(hourly[k])
         THEN /\ hourly' = [hourly EXCEPT ![k] = [@ EXCEPT !.val = @ + 1]]
              /\ trk' = [trk EXCEPT ![p] = IdleTrk]
         ELSE /\ hourly' = hourly
              /\ trk' = [trk EXCEPT ![p] = [@ EXCEPT !.pc = "hourlyset", !.hkey = Hour(now)]]
    /\ UNCHANGED <<now, daily, calls, allowed>>
    /\ UNCHANGED <<jobVars, budgetVars, genVars>>

\* _track_hourly_usage, lines 48-50: the ValueError handler sets the key to 1
\* for 25 hours.
TrackHourlySet(p) ==
    /\ trk[p].pc = "hourlyset"
    /\ hourly' = [hourly EXCEPT ![<<trk[p].svc, trk[p].hkey>>] =
                    CacheSet(1, HoursPerDay + 1)]
    /\ trk' = [trk EXCEPT ![p] = IdleTrk]
    /\ UNCHANGED <<now, daily, calls, allowed>>
    /\ UNCHANGED <<jobVars, budgetVars, genVars>>

TrackStep(p) ==
    \/ \E svc \in Services : TrackBegin(p, svc)
    \/ TrackTomorrow(p)
    \/ TrackSet(p)
    \/ TrackHourlyIncr(p)
    \/ TrackHourlySet(p)

TrackNext ==
    \/ Tick
    \/ \E p \in Trackers : TrackStep(p)

\* should_allow_api_call, called on its own; the exception of a cache.get
\* that fails is not caught.
ShouldAllow(svc) ==
    /\ allowed' = IF storeUp
                  THEN [svc |-> svc, result |-> ShouldAllowApiCall(svc), raised |-> FALSE]
                  ELSE [svc |-> svc, result |-> FALSE, raised |-> TRUE]
    /\ UNCHANGED <<now, daily, hourly, trk, calls>>
    /\ UNCHANGED <<jobVars, budgetVars, genVars>>

GuardNext ==
    \/ Tick
    \/ \E svc \in Services : ShouldAllow(svc)

(***************************************************************************)
(* Part 4.  The paid call sites (home/optimized_services.py and            *)
(* home/services.py).  A cached call site is two steps of a request        *)
(* thread: Begin is the cache lookup with its telemetry and admission      *)
(* check, Finish is the external request and the cache write.              *)
(***************************************************************************)
\* Place names looked up; the first contains a keyword of
\* _is_important_location, the second does not.
Locations == {"museum", "cafe"}
IsImportantLocation(l) == l = "museum"
\* Autocomplete inputs.
Queries == {"par"}
\* Cache keys of trip plans (the md5 of the eight trip parameters).
PlanKeys == {"k1"}
Requests == 1 .. MaxRequests

\* Cache timeouts, in the unit of the clock.
PlaceTimeout == place_cache_days * HoursPerDay
NegativeTimeout == negative_cache_hours
AutocompleteTimeout == autocomplete_cache_days * HoursPerDay
PlanTimeout == plan_cache_days * HoursPerDay

\* A key of the content caches without an entry: cache.get returns None.
NoEntry == [val |-> "None", exp |-> 0]
\* The same for a trip-plan key; None and the empty text are both falsy.
NoPlanEntry == [val |-> << >>, exp |-> 0]

\* What the completion returns to generate_optimized_trip_plan_cached.
CachedLLMTexts == { << >>, <<"a", "\n">>, <<"b">> }
\* _generate_template_plan
TemplatePlan == <<"t">>

IdleReq == [pc |-> "idle", op |-> "none", arg |-> "none", admitted |-> FALSE,
            ret |-> "none", text |-> NoText]

BudgetInit ==
    /\ extCalls = [s \in Services |-> 0]
    /\ placeCache = [l \in Locations |-> NoEntry]
    /\ acCache = [q \in Queries |-> NoEntry]
    /\ planCache = [k \in PlanKeys |-> NoPlanEntry]
    /\ cacheHits = 0
    /\ cacheMisses = 0
    /\ req = [p \in Requests |-> IdleReq]
    /\ started = 0
    /\ storeUp = TRUE
    /\ resolved = [l \in Locations |-> Never]
    /\ failed = [l \in Locations |-> Never]
    /\ generated = [k \in PlanKeys |-> [at |-> Never, text |-> NoText]]

\* A request thread that has returned v from operation op on argument a.
Return(op, a, v) ==
    [IdleReq EXCEPT !.op = op, !.arg = a, !.ret = v]

\* Time passes, an hour at a time, for as long as a place entry can live.
Elapse ==
    /\ now < place_cache_days * DayTicks
    /\ now' = now + TicksPerUnit
    /\ UNCHANGED <<daily, hourly, trk, calls, allowed>>
    /\ UNCHANGED <<jobVars, budgetVars, genVars>>

\* The cache backend stops answering: every cache operation raises.
StoreFails ==
    /\ storeUp
    /\ storeUp' = FALSE
    /\ UNCHANGED <<extCalls, placeCache, acCache, planCache, cacheHits,
                   cacheMisses, req, started, resolved, failed, generated>>
    /\ UNCHANGED <<jobVars, monVars, genVars>>

StoreRecovers ==
    /\ ~storeUp
    /\ storeUp' = TRUE
    /\ UNCHANGED <<extCalls, placeCache, acCache, planCache, cacheHits,
                   cacheMisses, req, started, resolved, failed, generated>>
    /\ UNCHANGED <<jobVars, monVars, genVars>>

\* AIService.generate_optimized_trip_plan, the whole retry loop: n requests
\* are sent to the LLM, the last of which answers or is the last attempt.
\* Nothing is asked of, or reported to, the cost monitor.
GenerateTripPlan(n) ==
    /\ extCalls["openai"] <= daily_limit
    /\ extCalls' = [extCalls EXCEPT !["openai"] = @ + n]
    /\ UNCHANGED <<placeCache, acCache, planCache, cacheHits, cacheMisses,
                   req, started, storeUp, resolved, failed, generated>>
    /\ UNCHANGED <<jobVars, monVars, genVars>>

\* get_place_details_cached, lines 40-57: the lookup (cache.get raises when
\* the backend is down), the hit, the admission check, the miss.
GetPlaceDetailsCachedBegin(p, l) ==
    /\ req[p].pc = "idle"
    /\ started < MaxLookups
    /\ started' = started + 1
    /\ IF ~storeUp
       THEN /\ req' = [req EXCEPT ![p] = Return("place", l, "raised")]
            /\ UNCHANGED <<cacheHits, cacheMisses>>
       ELSE IF CacheGet(placeCache[l], "None") # "None"
       THEN /\ req' = [req EXCEPT ![p] =
                         Return("place", l, CacheGet(placeCache[l], "None"))]
            /\ cacheHits' = cacheHits + 1
            /\ UNCHANGED cacheMisses
       ELSE IF ~ShouldAllowApiCall("google_maps")
       THEN /\ req' = [req EXCEPT ![p] = Return("place", l, "None")]
            /\ UNCHANGED <<cacheHits, cacheMisses>>
       ELSE /\ req' = [req EXCEPT ![p] =
                         [IdleReq EXCEPT !.pc = "search", !.op = "place", !.arg = l,
                                         !.admitted = TRUE]]
            /\ cacheMisses' = cacheMisses + 1
            /\ UNCHANGED cacheHits
    /\ UNCHANGED <<extCalls, placeCache, acCache, planCache, storeUp,
                   resolved, failed, generated>>
    /\ UNCHANGED <<jobVars, monVars, genVars>>

\* get_place_details_cached, lines 59-118: the text search, the details
\* request for an important place that was found, and the cache write: the
\* details for 7 days, or None for an hour when nothing was found or a
\* request failed.  With the backend down the write raises out of the
\* function.
GetPlaceDetailsCachedFinish(p) ==
    /\ req[p].pc = "search"
    /\ \E found \in BOOLEAN :
         LET l == req[p].arg IN
           /\ extCalls' = [extCalls EXCEPT !["google_maps"] =
                             @ + (IF found /\ IsImportantLocation(l) THEN 2 ELSE 1)]
           /\ IF ~storeUp
              THEN /\ req' = [req EXCEPT ![p] = [@ EXCEPT !.pc = "idle", !.ret = "raised"]]
                   /\ UNCHANGED <<placeCache, resolved, failed>>
              ELSE /\ req' = [req EXCEPT ![p] =
                                [@ EXCEPT !.pc = "idle",
                                          !.ret = IF found THEN "details" ELSE "None"]]
                   /\ placeCache' = [placeCache EXCEPT ![l] =
                                       IF found THEN CacheSet("details", PlaceTimeout)
                                       ELSE CacheSet("None", NegativeTimeout)]
                   /\ resolved' = IF found THEN [resolved EXCEPT ![l] = now] ELSE resolved
                   /\ failed' = IF found THEN failed ELSE [failed EXCEPT ![l] = now]
    /\ UNCHANGED <<acCache, planCache, cacheHits, cacheMisses, started, storeUp,
                   generated>>
    /\ UNCHANGED <<jobVars, monVars, genVars>>

\* get_autocomplete_cached, lines 138-147: the lookup, the hit, the miss.
GetAutocompleteCachedBegin(p, q) ==
    /\ req[p].pc = "idle"
    /\ started < MaxLookups
    /\ started' = started + 1
    /\ IF ~storeUp
       THEN /\ req' = [req EXCEPT ![p] = Return("autocomplete", q, "raised")]
            /\ UNCHANGED <<cacheHits, cacheMisses>>
       ELSE IF CacheGet(acCache[q], "None") \notin {"None", "[]"}
       THEN /\ req' = [req EXCEPT ![p] =
                         Return("autocomplete", q, CacheGet(acCache[q], "None"))]
            /\ cacheHits' = cacheHits + 1
            /\ UNCHANGED cacheMisses
       ELSE /\ req' = [req EXCEPT ![p] =
                         [IdleReq EXCEPT !.pc = "complete", !.op = "autocomplete",
                                         !.arg = q]]
            /\ cacheMisses' = cacheMisses + 1
            /\ UNCHANGED cacheHits
    /\ UNCHANGED <<extCalls, placeCache, acCache, planCache, storeUp,
                   resolved, failed, generated>>
    /\ UNCHANGED <<jobVars, monVars, genVars>>

\* get_autocomplete_cached, lines 149-172: the autocomplete request; the
\* suggestions are cached for a day; any exception (of the request or of the
\* cache write) returns the empty list.
GetAutocompleteCachedFinish(p) ==
    /\ req[p].pc = "complete"
    /\ extCalls' = [extCalls EXCEPT !["google_places"] = @ + 1]
    /\ \E answer \in {"list", "[]", "error"} :
         IF answer = "error" \/ ~storeUp
         THEN /\ req' = [req EXCEPT ![p] = [@ EXCEPT !.pc = "idle", !.ret = "[]"]]
              /\ UNCHANGED acCache
         ELSE /\ req' = [req EXCEPT ![p] = [@ EXCEPT !.pc = "idle", !.ret = answer]]
              /\ acCache' = [acCache EXCEPT ![req[p].arg] =
                               CacheSet(answer, AutocompleteTimeout)]
    /\ UNCHANGED <<placeCache, planCache, cacheHits, cacheMisses, started, storeUp,
                   resolved, failed, generated>>
    /\ UNCHANGED <<jobVars, monVars, genVars>>

\* generate_optimized_trip_plan_cached, lines 191-216: the lookup, the hit,
\* the miss.
GeneratePlanCachedBegin(p, k) ==
    /\ req[p].pc = "idle"
    /\ started < MaxLookups
    /\ started' = started + 1
    /\ IF ~storeUp
       THEN /\ req' = [req EXCEPT ![p] = Return("plan", k, "raised")]
            /\ UNCHANGED <<cacheHits, cacheMisses>>
       ELSE IF CacheGet(planCache[k], << >>) # << >>
       THEN /\ req' = [req EXCEPT ![p] =
                         [Return("plan", k, "text") EXCEPT
                            !.text = CacheGet(planCache[k], << >>)]]
            /\ cacheHits' = cacheHits + 1
            /\ UNCHANGED cacheMisses
       ELSE /\ req' = [req EXCEPT ![p] =
                         [IdleReq EXCEPT !.pc = "generate", !.op = "plan", !.arg = k]]
            /\ cacheMisses' = cacheMisses + 1
            /\ UNCHANGED cacheHits
    /\ UNCHANGED <<extCalls, placeCache, acCache, planCache, storeUp,
                   resolved, failed, generated>>
    /\ UNCHANGED <<jobVars, monVars, genVars>>

\* Mutant of AfterFailure: the template is cached like a generated text.
AfterFailureCached(entries, k) ==
    [entries EXCEPT ![k] = CacheSet(TemplatePlan, PlanTimeout)]

\* The plan cache after the except branch (lines 263-265): no cache.set.
AfterFailure(entries, k) == entries

\* generate_optimized_trip_plan_cached, lines 244-265: one completion
\* request; its stripped text is cached for 3 days and returned; any
\* exception (of the request or of the cache write) returns the template.
GeneratePlanCachedFinish(p) ==
    /\ req[p].pc = "generate"
    /\ extCalls' = [extCalls EXCEPT !["openai"] = @ + 1]
    /\ \/ \E raw \in CachedLLMTexts :
            LET k == req[p].arg
                result == Strip(raw) IN
              IF ~storeUp
              THEN /\ req' = [req EXCEPT ![p] =
                                [@ EXCEPT !.pc = "idle", !.ret = "text", !.text = TemplatePlan]]
                   /\ UNCHANGED <<planCache, generated>>
              ELSE /\ req' = [req EXCEPT ![p] =
                                [@ EXCEPT !.pc = "idle", !.ret = "text", !.text = result]]
                   /\ planCache' = [planCache EXCEPT ![k] = CacheSet(result, PlanTimeout)]
                   /\ generated' = [generated EXCEPT ![k] = [at |-> now, text |-> result]]
       \/ /\ req' = [req EXCEPT ![p] =
                       [@ EXCEPT !.pc = "idle", !.ret = "text", !.text = TemplatePlan]]
          /\ planCache' = AfterFailure(planCache, req[p].arg)
          /\ UNCHANGED generated
    /\ UNCHANGED <<placeCache, acCache, cacheHits, cacheMisses, started, storeUp,
                   resolved, failed>>
    /\ UNCHANGED <<jobVars, monVars, genVars>>

\* GoogleMapsService.get_place_details, as the document renderer of the
\* background job calls it: a text search and, when it found a place, a
\* details request; no cache and no admission check.
GetPlaceDetails(l) ==
    /\ started < MaxLookups
    /\ started' = started + 1
    /\ \E found \in BOOLEAN :
         extCalls' = [extCalls EXCEPT !["google_maps"] = @ + (IF found THEN 2 ELSE 1)]
    /\ UNCHANGED <<placeCache, acCache, planCache, cacheHits, cacheMisses,
                   req, storeUp, resolved, failed, generated>>
    /\ UNCHANGED <<jobVars, monVars, genVars>>

PlaceStep(p) ==
    \/ \E l \in Locations : GetPlaceDetailsCachedBegin(p, l)
    \/ GetPlaceDetailsCachedFinish(p)

AutocompleteStep(p) ==
    \/ \E q \in Queries : GetAutocompleteCachedBegin(p, q)
    \/ GetAutocompleteCachedFinish(p)

PlanStep(p) ==
    \/ \E k \in PlanKeys : GeneratePlanCachedBegin(p, k)
    \/ GeneratePlanCachedFinish(p)

BudgetNext ==
    \/ \E n \in 1 .. max_retries : GenerateTripPlan(n)
    \/ \E l \in Locations : GetPlaceDetails(l)
    \/ \E p \in Requests : PlaceStep(p) \/ AutocompleteStep(p) \/ PlanStep(p)

PlaceNext ==
    \/ Elapse
    \/ \E p \in Requests : PlaceStep(p)

PlanNext ==
    \/ Elapse
    \/ \E p \in Requests : AutocompleteStep(p) \/ PlanStep(p)

OutageNext ==
    \/ StoreFails
    \/ StoreRecovers
    \/ \E svc \in Services : ShouldAllow(svc)
    \/ \E p \in Requests : PlaceStep(p)

(***************************************************************************)
(* Part 5.  Locations: extract_locations_from_text, the place lookups of   *)
(* the document renderers and the map links.                               *)
(*                                                                         *)
(* Texts are sequences of characters.  The patterns are matched the way    *)
(* re.findall matches them under re.IGNORECASE: from left to right, the    *)
(* character class of a name taking as many characters as it can.          *)
(***************************************************************************)
LowerChars == <<"a", "b", "c", "d", "e", "f", "g", "h", "i", "j", "k", "l", "m",
                "n", "o", "p", "q", "r", "s", "t", "u", "v", "w", "x", "y", "z">>
UpperChars == <<"A", "B", "C", "D", "E", "F", "G", "H", "I", "J", "K", "L", "M",
                "N", "O", "P", "Q", "R", "S", "T", "U", "V", "W", "X", "Y", "Z">>
IsUpper(c) == \E k \in 1 .. 26 : UpperChars[k] = c
IsLower(c) == \E k \in 1 .. 26 : LowerChars[k] = c
\* [a-zA-Z]
IsLetter(c) == IsUpper(c) \/ IsLower(c)
\* str.lower() and str.upper(), a character at a time
ToLower(c) == IF IsUpper(c) THEN LowerChars[CHOOSE k \in 1 .. 26 : UpperChars[k] = c] ELSE c
ToUpper(c) == IF IsLower(c) THEN UpperChars[CHOOSE k \in 1 .. 26 : LowerChars[k] = c] ELSE c
LowerText(s) == [i \in 1 .. Len(s) |-> ToLower(s[i])]
UpperText(s) == [i \in 1 .. Len(s) |-> ToUpper(s[i])]
\* \w
IsWordChar(c) == IsLetter(c) \/ IsDigit(c) \/ c = "_"
\* \b in front of position i
WordBoundary(s, i) ==
    (i > 1 /\ i - 1 <= Len(s) /\ IsWordChar(s[i - 1])) # (i <= Len(s) /\ IsWordChar(s[i]))
\* The literal kw at position i, case ignored.
MatchesAt(s, i, kw) ==
    /\ i >= 1
    /\ i + Len(kw) - 1 <= Len(s)
    /\ \A j \in 1 .. Len(kw) : ToLower(s[i + j - 1]) = ToLower(kw[j])

\* "(?:visit|go to|explore|see|at|near)"
Verbs ==
    { <<"v", "i", "s", "i", "t">>, <<"g", "o", " ", "t", "o">>,
      <<"e", "x", "p", "l", "o", "r", "e">>, <<"s", "e", "e">>, <<"a", "t">>,
      <<"n", "e", "a", "r">> }

\* The closing words of an attraction name.
AttractionWords ==
    { <<"T", "o", "w", "e", "r">>, <<"M", "u", "s", "e", "u", "m">>,
      <<"P", "a", "l", "a", "c", "e">>, <<"T", "e", "m", "p", "l", "e">>,
      <<"C", "h", "u", "r", "c", "h">>,
      <<"C", "a", "t", "h", "e", "d", "r", "a", "l">>,
      <<"M", "a", "r", "k", "e", "t">>, <<"B", "e", "a", "c", "h">>,
      <<"S", "q", "u", "a", "r", "e">>, <<"B", "r", "i", "d", "g", "e">>,
      <<"G", "a", "r", "d", "e", "n">>, <<"G", "a", "l", "l", "e", "r", "y">>,
      <<"S", "t", "a", "d", "i", "u", "m">>,
      <<"A", "i", "r", "p", "o", "r", "t">>,
      <<"S", "t", "a", "t", "i", "o", "n">>,
      <<"B", "a", "s", "i", "l", "i", "c", "a">>, <<"A", "r", "c">>,
      <<"C", "a", "s", "t", "l", "e">> }

\* The closing words optimized_services adds to them ("Cafe" left out).
VenueWords ==
    { <<"R", "e", "s", "t", "a", "u", "r", "a", "n", "t">>,
      <<"H", "o", "t", "e", "l">> }

\* The landmarks known by name ("Sacre-Coeur Basilica" left out).
LandmarkNames ==
    { <<"E", "i", "f", "f", "e", "l", " ", "T", "o", "w", "e", "r">>,
      <<"L", "o", "u", "v", "r", "e", " ", "M", "u", "s", "e", "u", "m">>,
      <<"N", "o", "t", "r", "e", "-", "D", "a", "m", "e", " ", "C", "a", "t", "h", "e", "d", "r", "a", "l">>,
      <<"A", "r", "c", " ", "d", "e", " ", "T", "r", "i", "o", "m", "p", "h", "e">>,
      <<"T", "i", "m", "e", "s", " ", "S", "q", "u", "a", "r", "e">>,
      <<"C", "e", "n", "t", "r", "a", "l", " ", "P", "a", "r", "k">>,
      <<"B", "i", "g", " ", "B", "e", "n">>,
      <<"L", "o", "n", "d", "o", "n", " ", "E", "y", "e">>,
      <<"S", "t", "a", "t", "u", "e", " ", "o", "f", " ", "L", "i", "b", "e", "r", "t", "y">>,
      <<"G", "o", "l", "d", "e", "n", " ", "G", "a", "t", "e", " ", "B", "r", "i", "d", "g", "e">> }

\* The landmarks optimized_services adds to them.
MoreLandmarkNames ==
    { <<"C", "o", "l", "o", "s", "s", "e", "u", "m">>,
      <<"V", "a", "t", "i", "c", "a", "n", " ", "C", "i", "t", "y">>,
      <<"T", "r", "e", "v", "i", " ", "F", "o", "u", "n", "t", "a", "i", "n">>,
      <<"R", "o", "m", "a", "n", " ", "F", "o", "r", "u", "m">>,
      <<"P", "a", "n", "t", "h", "e", "o", "n">> }

\* "(?:Street|Avenue|Road|Boulevard|Lane)"
StreetWords ==
    { <<"S", "t", "r", "e", "e", "t">>, <<"A", "v", "e", "n", "u", "e">>,
      <<"R", "o", "a", "d">>, <<"B", "o", "u", "l", "e", "v", "a", "r", "d">>,
      <<"L", "a", "n", "e">> }

\* "(?:Restaurant|Cafe|Hotel|Inn|Lodge)", without the accented word.
LodgingWords ==
    { <<"R", "e", "s", "t", "a", "u", "r", "a", "n", "t">>,
      <<"H", "o", "t", "e", "l">>, <<"I", "n", "n">>,
      <<"L", "o", "d", "g", "e">> }

\* "Bistro|Brasserie|Tavern", added by optimized_services.
MoreLodgingWords ==
    { <<"B", "i", "s", "t", "r", "o">>,
      <<"B", "r", "a", "s", "s", "e", "r", "i", "e">>,
      <<"T", "a", "v", "e", "r", "n">> }

\* The patterns: the words that may come in front of the group, whether the
\* group starts at a word boundary, the characters its class takes besides
\* letters, its closing words (or, for a list of names, the names), and
\* whether a word boundary must follow.
WithVerb(closing) ==
    [verbs |-> Verbs, lead |-> FALSE, extra |-> {" ", "-"}, closing |-> closing,
     names |-> {}, trail |-> FALSE]
Named(closing, extra) ==
    [verbs |-> {}, lead |-> TRUE, extra |-> extra, closing |-> closing,
     names |-> {}, trail |-> TRUE]
Listed(names) ==
    [verbs |-> {}, lead |-> TRUE, extra |-> {}, closing |-> {},
     names |-> names, trail |-> TRUE]

\* The patterns of GoogleMapsService.extract_locations_from_text.
ServicePatterns ==
    { WithVerb(AttractionWords),
      Named(AttractionWords, {" ", "-"}),
      Listed(LandmarkNames),
      Named(StreetWords, {" "}),
      Named(LodgingWords, {" "}) }
\* The patterns of extract_locations_from_text in optimized_services.
OptimizedPatterns ==
    { WithVerb(AttractionWords \cup VenueWords),
      Named(AttractionWords \cup VenueWords, {" ", "-"}),
      Listed(LandmarkNames \cup MoreLandmarkNames),
      Named(LodgingWords \cup MoreLodgingWords, {" ", "&", "'"}) }

RECURSIVE RunEnd(_, _, _)
\* The last position of the longest run of class characters from i on
\* (i - 1 when s[i] is none).
RunEnd(s, i, extra) ==
    IF i <= Len(s) /\ (IsLetter(s[i]) \/ s[i] \in extra)
    THEN RunEnd(s, i + 1, extra) ELSE i - 1

\* "[A-Z][a-zA-Z\s-]+(?:Tower|...)" from position g: the position of the
\* last character matched, 0 when there is no match.  The class gives back
\* characters until a closing word follows it.
GroupEnd(s, g, pat) ==
    IF g > Len(s) \/ ~IsLetter(s[g]) THEN 0
    ELSE LET m == RunEnd(s, g + 1, pat.extra)
             ok == {kw \in (g + 1 .. m) \X pat.closing :
                      /\ MatchesAt(s, kw[1] + 1, kw[2])
                      /\ pat.trail => WordBoundary(s, kw[1] + Len(kw[2]) + 1)}
         IN  IF ok = {} THEN 0
             ELSE LET last == CHOOSE kw \in ok : \A other \in ok : other[1] <= kw[1]
                  IN  last[1] + Len(last[2])

RECURSIVE SkipSpaces(_, _)
SkipSpaces(s, i) == IF i <= Len(s) /\ IsSpace(s[i]) THEN SkipSpaces(s, i + 1) ELSE i

\* A match of the pattern that starts at position p: the group as
\* [from, to], or [from |-> 0, to |-> 0] when there is none.
NoMatch == [from |-> 0, to |-> 0]
MatchAt(s, p, pat) ==
    IF pat.names # {}
    THEN LET hits == {n \in pat.names :
                        /\ WordBoundary(s, p)
                        /\ MatchesAt(s, p, n)
                        /\ WordBoundary(s, p + Len(n))}
         IN  IF hits = {} THEN NoMatch
             ELSE [from |-> p, to |-> p + Len(CHOOSE n \in hits : TRUE) - 1]
    ELSE IF pat.verbs # {}
    THEN LET hits == {v \in pat.verbs :
                        /\ MatchesAt(s, p, v)
                        /\ SkipSpaces(s, p + Len(v)) > p + Len(v)
                        /\ GroupEnd(s, SkipSpaces(s, p + Len(v)), pat) # 0}
         IN  IF hits = {} THEN NoMatch
             ELSE LET g == SkipSpaces(s, p + Len(CHOOSE v \in hits : TRUE))
                  IN  [from |-> g, to |-> GroupEnd(s, g, pat)]
    ELSE IF WordBoundary(s, p) /\ GroupEnd(s, p, pat) # 0
         THEN [from |-> p, to |-> GroupEnd(s, p, pat)]
         ELSE NoMatch

RECURSIVE FindAll(_, _, _)
\* re.findall(pattern, line, re.IGNORECASE): the groups of the matches found
\* from position p on, each search starting where the last match ended.
FindAll(s, p, pat) ==
    IF p > Len(s) THEN {}
    ELSE LET m == MatchAt(s, p, pat)
         IN  IF m = NoMatch THEN FindAll(s, p + 1, pat)
             ELSE {SubSeq(s, m.from, m.to)} \cup FindAll(s, m.to + 1, pat)

RECURSIVE DropNonLetters(_)
\* re.sub(r'^[^a-zA-Z]+', '', match)
DropNonLetters(s) ==
    IF s # << >> /\ ~IsLetter(Head(s)) THEN DropNonLetters(Tail(s)) ELSE s

RECURSIVE SplitLines(_)
\* text.split('\n')
SplitLines(s) ==
    IF \A i \in 1 .. Len(s) : s[i] # "\n" THEN <<s>>
    ELSE LET n == CHOOSE i \in 1 .. Len(s) :
                     s[i] = "\n" /\ \A j \in 1 .. i - 1 : s[j] # "\n"
         IN  <<SubSeq(s, 1, n - 1)>> \o SplitLines(SubSeq(s, n + 1, Len(s)))

\* The names one line adds to the set: a match longer than 3 characters,
\* without its leading non-letters; optimized_services also wants the
\* cleaned name longer than 3 (minClean = 3), GoogleMapsService not empty.
LineLocations(line, patterns, minClean) ==
    {DropNonLetters(Strip(m)) :
        m \in {x \in UNION {FindAll(Strip(line), 1, pat) : pat \in patterns} :
                 /\ Len(Strip(x)) > 3
                 /\ Len(DropNonLetters(Strip(x))) > minClean}}

\* extract_locations_from_text: the set behind the list it returns.
LocationsOf(text, patterns, minClean) ==
    UNION {LineLocations(SplitLines(text)[i], patterns, minClean) :
             i \in 1 .. Len(SplitLines(text))}
\* GoogleMapsService.extract_locations_from_text
ServiceLocations(text) == LocationsOf(text, ServicePatterns, 0)
\* extract_locations_from_text of optimized_services
OptimizedLocations(text) == LocationsOf(text, OptimizedPatterns, 3)

\* generate_clean_pdf(text): how many of its place lookups can reach the
\* Places API (the others are answered by the cache or refused).
CleanPdfCalls(text) == 0 .. Min(MaxEnrich, Cardinality(OptimizedLocations(text)))

\* The row of trip t after get_or_create and a save of content and document.
Persist(t, content, doc) ==
    IF HasPlan(t) THEN UpdatePlan(PlanOf(t).id, content, doc)
    ELSE plans \cup {[id |-> nextPlanId, trip |-> t, content |-> content, pdf |-> doc]}

\* cost_optimized_trip_generation, lines 563-576: a plan longer than 100
\* characters is kept, and its document is rendered when it has none.
KeepExistingPlan(t) ==
    /\ HasPlan(t)
    /\ Len(Strip(PlanOf(t).content)) > OptimizedThreshold
    /\ IF PlanOf(t).pdf = "none"
       THEN \E n \in CleanPdfCalls(PlanOf(t).content), doc \in {"pdf", "txt"} :
              /\ extCalls' = [extCalls EXCEPT !["google_maps"] = Min(@ + n, CallCap)]
              /\ plans' = UpdatePlan(PlanOf(t).id, PlanOf(t).content, doc)
       ELSE UNCHANGED <<extCalls, plans>>
    /\ UNCHANGED <<nextPlanId, llmCalls, planCache, cacheHits, cacheMisses, generated>>

\* Lines 581-612: the text of generate_optimized_trip_plan_cached (the cache
\* entry, or one completion request, or the template when the request
\* fails), rendered by generate_clean_pdf and saved; when the document
\* cannot be stored the handler saves the text of generate_template_fallback
\* with its document, and when that fails too the row stays as get_or_create
\* left it.
GenerateNewPlan(t, k) ==
    /\ ~(HasPlan(t) /\ Len(Strip(PlanOf(t).content)) > OptimizedThreshold)
    /\ ~DivisionByZero(trips[t])
    /\ \E text \in IF CacheGet(planCache[k], << >>) # << >>
                   THEN {CacheGet(planCache[k], << >>)}
                   ELSE {Strip(raw) : raw \in IF llm = "up" THEN LLMTexts ELSE {}}
                        \cup {TemplatePlanText(trips[t])} :
         /\ IF CacheGet(planCache[k], << >>) # << >>
            THEN /\ cacheHits' = cacheHits + 1
                 /\ UNCHANGED <<cacheMisses, llmCalls, planCache, generated>>
            ELSE /\ cacheMisses' = cacheMisses + 1
                 /\ llmCalls' = [llmCalls EXCEPT ![t] = Min(@ + 1, CallCap)]
                 /\ IF text = TemplatePlanText(trips[t])
                    THEN UNCHANGED <<planCache, generated>>
                    ELSE /\ planCache' = [planCache EXCEPT
                                            ![k] = CacheSet(text, PlanTimeout)]
                         /\ generated' = [generated EXCEPT
                                            ![k] = [at |-> now, text |-> text]]
                 /\ UNCHANGED cacheHits
         /\ \E n \in CleanPdfCalls(text), doc \in {"pdf", "txt"},
               stored \in {"first", "second", "never"} :
              /\ extCalls' = [extCalls EXCEPT !["google_maps"] = Min(@ + n, CallCap)]
              /\ plans' =
                   CASE stored = "first" -> Persist(t, text, doc)
                     [] stored = "second" ->
                          Persist(t, TemplateFallbackText(trips[t]), doc)
                     [] OTHER ->
                          IF HasPlan(t) THEN plans ELSE Persist(t, text, "none")
              /\ nextPlanId' = IF HasPlan(t) THEN nextPlanId ELSE nextPlanId + 1

\* cost_optimized_trip_generation(trip_request_id, user_id)
CostOptimizedTripGeneration(t) ==
    /\ t \in TripIds
    /\ storeUp
    /\ started < MaxLookups
    /\ started' = started + 1
    /\ KeepExistingPlan(t) \/ \E k \in PlanKeys : GenerateNewPlan(t, k)
    /\ UNCHANGED <<run, lastPoll, placeCache, acCache, req, storeUp, resolved, failed>>
    /\ UNCHANGED <<monVars, genVars>>

\* The sentence "Visit Eiffel Tower and explore Louvre Museum today" and the
\* ways of writing it: each word of the two names in lower case, in capitals
\* or with a capital initial, the other words as they are, in lower case or
\* in capitals.
CaseModes == {"lower", "upper", "title"}
Cased(word, mode) ==
    CASE mode = "lower" -> LowerText(word)
      [] mode = "upper" -> UpperText(word)
      [] OTHER -> word
Sentence(e, t, l, m, rest) ==
    Cased(<<"V", "i", "s", "i", "t", " ">>, rest) \o Cased(<<"E", "i", "f", "f", "e", "l">>, e) \o <<" ">>
    \o Cased(<<"T", "o", "w", "e", "r">>, t) \o Cased(<<" ", "a", "n", "d", " ", "e", "x", "p", "l", "o", "r", "e", " ">>, rest)
    \o Cased(<<"L", "o", "u", "v", "r", "e">>, l) \o <<" ">> \o Cased(<<"M", "u", "s", "e", "u", "m">>, m)
    \o Cased(<<" ", "t", "o", "d", "a", "y">>, rest)
Sentences ==
    {Sentence(e, t, l, m, rest) : e \in CaseModes, t \in CaseModes, l \in CaseModes,
                                  m \in CaseModes, rest \in CaseModes}
EiffelTower == <<"E", "i", "f", "f", "e", "l", " ", "T", "o", "w", "e", "r">>
LouvreMuseum == <<"L", "o", "u", "v", "r", "e", " ", "M", "u", "s", "e", "u", "m">>

\* Lines that name a place, once or twice, in one spelling or another.
PlaceLines ==
    { EiffelTower, LowerText(EiffelTower), UpperText(EiffelTower),
      <<" ">> \o EiffelTower \o <<" ">>,
      <<"S", "e", "e", " ", "B", "i", "g", " ", "B", "e", "n">>, <<"s", "e", "e", " ", "b", "i", "g", " ", "b", "e", "n">> }
TwoLineTexts == {a \o <<"\n">> \o b : a \in PlaceLines, b \in PlaceLines}
ExtractTexts == Sentences \cup TwoLineTexts

Extractors == {"services", "optimized_services"}
\* extract_locations_from_text applied to the text in input.
ExtractLocationsFromText(x) ==
    /\ out = NoOutput
    /\ out' = [NoOutput EXCEPT
                 !.gen = x,
                 !.locations = IF x = "services" THEN ServiceLocations(input)
                               ELSE OptimizedLocations(input)]
    /\ UNCHANGED <<trips, llm, input, render, webVars>>
    /\ UNCHANGED <<jobVars, monVars, budgetVars>>

(***************************************************************************)
(* Part 6.  The document renderers and their place lookups.                *)
(***************************************************************************)

\* What a place lookup can come to: a place with its place_id, a place
\* without one, no result, or an error.
Answers == {"place", "nameless", "none", "raised"}
\* For the lookups ahead of the content a place is a place, with or
\* without its place_id.
PrefetchAnswers == {"place", "none", "raised"}

\* GoogleMapsService.get_place_details: every exception is caught inside
\* and None is returned.
PlaceDetailsOf(a) == IF a = "raised" THEN "none" ELSE a

\* GoogleMapsService.generate_google_maps_link: the lookup first (a text
\* search and, for a place found, a details request), then the URL by
\* place_id, or the search URL.
GenerateGoogleMapsLinkOf(a) ==
    [fn |-> "generate_google_maps_link", answer |-> a,
     url |-> IF PlaceDetailsOf(a) = "place" THEN "place_id" ELSE "search",
     calls |-> IF a \in {"place", "nameless"} THEN 2 ELSE 1,
     raised |-> FALSE]

\* CostOptimizedGoogleMapsService.generate_google_maps_link_simple: the
\* search URL, nothing asked.
GenerateGoogleMapsLinkSimpleOf ==
    [fn |-> "generate_google_maps_link_simple", answer |-> "unasked",
     url |-> "search", calls |-> 0, raised |-> FALSE]

Renderers == {"generate_trip_plan_pdf", "generate_clean_pdf"}

\* locations[:5] of a list made from a set: any five of them.
FirstFew(S) ==
    IF Cardinality(S) <= MaxEnrich THEN {S}
    ELSE {F \in SUBSET S : Cardinality(F) = MaxEnrich}

\* The locations a renderer hands to place resolution: all of them in
\* generate_trip_plan_pdf, the first five in generate_clean_pdf.
Candidates(f, text) ==
    IF f = "generate_trip_plan_pdf" THEN {ServiceLocations(text)}
    ELSE FirstFew(OptimizedLocations(text))

\* A plan text naming three places on three lines (with a closing rule
\* that brings it over 100 characters), one naming a single place, and one
\* naming none.
ThreePlaces ==
    <<"V", "i", "s", "i", "t", " ", "E", "i", "f", "f", "e", "l", " ", "T", "o", "w", "e", "r", "\n", "V", "i", "s", "i", "t", " ", "L", "o", "u", "v", "r", "e", " ", "M", "u", "s", "e", "u", "m", "\n", "E", "x", "p", "l", "o", "r", "e", " ", "T", "o", "w", "e", "r", " ", "B", "r", "i", "d", "g", "e", "\n">>
      \o Rep("-", CompleteThreshold)
OnePlace == <<"V", "i", "s", "i", "t", " ", "E", "i", "f", "f", "e", "l", " ", "T", "o", "w", "e", "r">>
NoPlace == <<"E", "n", "j", "o", "y", " ", "O", "s", "l", "o">>
RenderTexts == {ThreePlaces, OnePlace, NoPlace}

\* `location.lower() in line.lower()`, as the first position (0: nowhere);
\* ls and lw are the line and the location in lower case.
Occurs(ls, lw, i) ==
    /\ i + Len(lw) - 1 <= Len(ls)
    /\ \A k \in 1 .. Len(lw) : ls[i + k - 1] = lw[k]
FirstOccurrence(ls, lw) ==
    IF \E i \in 1 .. Len(ls) : Occurs(ls, lw, i)
    THEN CHOOSE i \in 1 .. Len(ls) :
           Occurs(ls, lw, i) /\ \A j \in 1 .. i - 1 : ~Occurs(ls, lw, j)
    ELSE 0
Find(s, w) == FirstOccurrence(LowerText(s), LowerText(w))
\* location_pattern.sub(..., count=1): the first occurrence becomes an
\* anchor around the location ("<a>" stands for the opening tag with its
\* href).
Substitute(s, w) ==
    LET i == Find(s, w)
    IN  SubSeq(s, 1, i - 1) \o <<"<a>">> \o w \o <<"</a>">>
          \o SubSeq(s, i + Len(w), Len(s))

\* The renderer is called for a trip without a complete plan, with the
\* generated text.
RenderBegin(f, t) ==
    /\ render.pc = "idle"
    /\ input # NoText
    /\ IF f = "generate_trip_plan_pdf" THEN ~PlanComplete(t)
       ELSE ~(HasPlan(t) /\ Len(Strip(PlanOf(t).content)) > OptimizedThreshold)
    /\ \E todo \in Candidates(f, input) :
         render' = [IdleRender EXCEPT !.pc = "lookup", !.renderer = f, !.trip = t,
                                      !.text = input, !.todo = todo]
    /\ UNCHANGED <<trips, llm, out, input, webVars>>
    /\ UNCHANGED <<jobVars, monVars, budgetVars>>

\* Mutant of HandleLookup: a lookup that fails ends the rendering with the
\* plain text document.
HandleLookupAbort(rd, l, a) ==
    IF a = "raised"
    THEN [rd EXCEPT !.answers = @ @@ (l :> a), !.pc = "store", !.doc = "txt"]
    ELSE [rd EXCEPT !.answers = @ @@ (l :> a),
                    !.details = IF a = "place" THEN @ \cup {l} ELSE @]

\* One pass of the lookup loop (services.py 826-836, optimized_services.py
\* 381-388): the details are kept when there are any, a failure is logged
\* and the loop goes on.
HandleLookup(rd, l, a) ==
    [rd EXCEPT !.answers = @ @@ (l :> a),
               !.details = IF a = "place" THEN @ \cup {l} ELSE @]

RenderLookup ==
    /\ render.pc = "lookup"
    /\ \E l \in render.todo \ DOMAIN render.answers, a \in PrefetchAnswers :
         render' = HandleLookup(render, l, a)
    /\ UNCHANGED <<trips, llm, out, input, webVars>>
    /\ UNCHANGED <<jobVars, monVars, budgetVars>>

\* The stripped line n of the text.
LineOf(text, n) == Strip(SplitLines(text)[n])

\* After the lookups: generate_trip_plan_pdf goes through the lines and
\* links the locations; generate_clean_pdf writes its links without any
\* lookup.
RenderContent ==
    /\ render.pc = "lookup"
    /\ DOMAIN render.answers = render.todo
    /\ render' = IF render.renderer = "generate_trip_plan_pdf"
                 THEN [render EXCEPT !.pc = "link", !.line = 1,
                                     !.linetext = LineOf(render.text, 1)]
                 ELSE [render EXCEPT !.pc = "build"]
    /\ UNCHANGED <<trips, llm, out, input, webVars>>
    /\ UNCHANGED <<jobVars, monVars, budgetVars>>

\* The locations still to visit that the line holds.
Linkable(rd) ==
    LET ls == LowerText(rd.linetext)
    IN  {l \in rd.todo \ rd.visited : FirstOccurrence(ls, LowerText(l)) > 0}

\* services.py 867-880: a location found in the line gets its link from
\* generate_google_maps_link and its anchor; with none left the next line
\* is taken, and after the last one the document is built.
RenderLink ==
    /\ render.pc = "link"
    /\ LET linkable == Linkable(render)
           lines == SplitLines(render.text)
       IN  IF linkable # {}
           THEN \E l \in linkable, a \in Answers :
                  render' = [render EXCEPT !.link = GenerateGoogleMapsLinkOf(a),
                                           !.linetext = Substitute(@, l),
                                           !.visited = @ \cup {l}]
           ELSE IF render.line < Len(lines)
           THEN render' = [render EXCEPT !.line = @ + 1,
                                         !.linetext = Strip(lines[render.line + 1]),
                                         !.visited = {}]
           ELSE render' = [render EXCEPT !.pc = "build", !.line = 0,
                                         !.linetext = NoText,
                                         !.visited = {}, !.link = NoLink]
    /\ UNCHANGED <<trips, llm, out, input, webVars>>
    /\ UNCHANGED <<jobVars, monVars, budgetVars>>

\* doc.build and the return: the PDF, or the text file when anything
\* raised (services.py 985-992, optimized_services.py 551-554).
RenderBuild ==
    /\ render.pc = "build"
    /\ \E broken \in BOOLEAN :
         render' = [render EXCEPT !.pc = "store",
                                  !.doc = IF broken THEN "txt" ELSE "pdf"]
    /\ UNCHANGED <<trips, llm, out, input, webVars>>
    /\ UNCHANGED <<jobVars, monVars, budgetVars>>

\* The caller's save.  generate_trip_plan_background (views.py 380-415)
\* saves the text with the document, or the text alone when the document
\* cannot be stored; cost_optimized_trip_generation (588-612) saves both,
\* or else the template text with its document, or else nothing more.
RenderStore ==
    /\ render.pc = "store"
    /\ \E stored \in {"first", "second", "never"} :
         LET t == render.trip IN
           /\ render.renderer = "generate_trip_plan_pdf" => stored # "second"
           /\ render' = [render EXCEPT !.pc = "done", !.stored = stored]
           /\ plans' =
                IF render.renderer = "generate_trip_plan_pdf"
                THEN Persist(t, render.text,
                             IF stored = "first" THEN render.doc
                             ELSE IF HasPlan(t) THEN PlanOf(t).pdf ELSE "none")
                ELSE CASE stored = "first" -> Persist(t, render.text, render.doc)
                       [] stored = "second" ->
                            Persist(t, TemplateFallbackText(trips[t]), render.doc)
                       [] OTHER ->
                            IF HasPlan(t) THEN plans
                            ELSE Persist(t, render.text, "none")
           /\ nextPlanId' = IF HasPlan(t) THEN nextPlanId ELSE nextPlanId + 1
    /\ UNCHANGED <<run, llmCalls, lastPoll>>
    /\ UNCHANGED <<trips, llm, out, input, webVars>>
    /\ UNCHANGED <<monVars, budgetVars>>

\* generate_google_maps_link called on its own.
GenerateGoogleMapsLink(a) ==
    /\ render.pc = "idle"
    /\ render' = [IdleRender EXCEPT !.pc = "linked",
                                    !.link = GenerateGoogleMapsLinkOf(a)]
    /\ UNCHANGED <<trips, llm, out, input, webVars>>
    /\ UNCHANGED <<jobVars, monVars, budgetVars>>

\* generate_google_maps_link_simple called on its own.
GenerateGoogleMapsLinkSimple ==
    /\ render.pc = "idle"
    /\ render' = [IdleRender EXCEPT !.pc = "linked",
                                    !.link = GenerateGoogleMapsLinkSimpleOf]
    /\ UNCHANGED <<trips, llm, out, input, webVars>>
    /\ UNCHANGED <<jobVars, monVars, budgetVars>>

RenderReturn ==
    /\ render.pc \in {"done", "linked"}
    /\ render' = IdleRender
    /\ UNCHANGED <<trips, llm, out, input, webVars>>
    /\ UNCHANGED <<jobVars, monVars, budgetVars>>

(***************************************************************************)
(* Part 7.  The API endpoints: autocomplete, trip status, trip update.     *)
(***************************************************************************)

\* The queries sent to the endpoint: a city prefix, the same with blanks
\* around it, one character, nothing.
EndpointQueries ==
    { <<"p", "a", "r">>, <<" ", "p", "a", "r", " ">>, <<"p">>, << >> }

\* f"autocomplete_{query}".lower().replace(' ', '_')
EndpointKey(query) ==
    <<"autocomplete_">> \o [i \in 1 .. Len(query) |->
                             IF query[i] = " " THEN "_" ELSE ToLower(query[i])]

\* The query as get_autocomplete_cached receives it.
QueryArg(query) == IF query = <<"p", "a", "r">> THEN "par" ELSE "none"

\* cache.get(cache_key) on the endpoint's entries.
EndpointEntry(key) == IF key \in DOMAIN epCache THEN epCache[key] ELSE NoEntry

\* Mutant of EndpointHit: an empty suggestion list reads as a miss.
EndpointHitNonEmpty(key) ==
    Live(EndpointEntry(key)) /\ EndpointEntry(key).val # "[]"

\* `if cached_data:` the stored value is the dict {'suggestions': ...},
\* which is true whatever the list holds.
EndpointHit(key) == Live(EndpointEntry(key))

\* The last response stored under a key, and when.
Served(key) ==
    IF key \in DOMAIN served THEN served[key] ELSE [at |-> Never, suggestions |-> "none"]

Respond(code, suggestions, hit) ==
    [IdleEp EXCEPT !.resp = [http |-> code, suggestions |-> suggestions,
                             hit |-> hit]]

\* PlacesAutocompleteAPIView.get, lines 157-169: the query is trimmed, a
\* query of less than 2 characters is answered with no suggestion, the
\* cache is asked (outside the try block), a hit is answered as stored.
PlacesAutocompleteGet(p, q) ==
    /\ ep[p].pc = "idle"
    /\ req[p].pc = "idle"
    /\ LET query == Strip(q)
           key == EndpointKey(query)
       IN  IF Len(query) < 2
           THEN ep' = [ep EXCEPT ![p] = Respond(200, "[]", FALSE)] /\ UNCHANGED req
           ELSE IF ~storeUp
           THEN ep' = [ep EXCEPT ![p] = Respond(500, "none", FALSE)] /\ UNCHANGED req
           ELSE IF EndpointHit(key)
           THEN /\ ep' = [ep EXCEPT ![p] = Respond(200, EndpointEntry(key).val, TRUE)]
                /\ UNCHANGED req
           ELSE /\ ep' = [ep EXCEPT ![p] = [IdleEp EXCEPT !.pc = "service",
                                                         !.query = query, !.key = key]]
                /\ req' = [req EXCEPT ![p] = IdleReq]
    /\ UNCHANGED <<extCalls, placeCache, acCache, planCache, cacheHits, cacheMisses,
                   started, storeUp, resolved, failed, generated>>
    /\ UNCHANGED <<trips, llm, out, input, render, epCache, served, tickets, stats, keyed>>
    /\ UNCHANGED <<jobVars, monVars>>

\* Line 176: gmaps_service.get_autocomplete_cached(query), once.
PlacesAutocompleteService(p) ==
    /\ ep[p].pc = "service"
    /\ \/ /\ req[p].ret = "none"
          /\ GetAutocompleteCachedBegin(p, QueryArg(ep[p].query))
       \/ GetAutocompleteCachedFinish(p)

\* Lines 178-196: the response is stored for an hour and returned (as the
\* serializer validated it, or as it is); any exception answers 500.
PlacesAutocompleteReturn(p) ==
    /\ ep[p].pc = "service"
    /\ req[p].pc = "idle"
    /\ req[p].ret # "none"
    /\ IF req[p].ret = "raised" \/ ~storeUp
       THEN /\ ep' = [ep EXCEPT ![p] = Respond(500, "[]", FALSE)]
            /\ UNCHANGED <<epCache, served>>
       ELSE /\ ep' = [ep EXCEPT ![p] = Respond(200, req[p].ret, FALSE)]
            /\ epCache' = (ep[p].key :> CacheSet(req[p].ret, endpoint_cache_hours))
                            @@ epCache
            /\ served' = (ep[p].key :> [at |-> now, suggestions |-> req[p].ret])
                            @@ served
    /\ UNCHANGED <<trips, llm, out, input, render, tickets, stats, keyed>>
    /\ UNCHANGED <<jobVars, monVars, budgetVars>>

EndpointStep(p) ==
    \/ \E q \in EndpointQueries : PlacesAutocompleteGet(p, q)
    \/ PlacesAutocompleteService(p)
    \/ PlacesAutocompleteReturn(p)

\* The HTTP code that goes with the body of a status answer: Response(...)
\* is 200, the body {'status': 'error'} is sent with status 500.
HttpStatus(status) == IF status = "error" THEN 500 ELSE 200

\* TripStatusAPIView.get for a user who is not the trip's owner (or for an
\* id that does not exist): get_object_or_404(..., user=request.user) raises
\* Http404 inside the try block, `except Exception` catches it and answers
\* {'status': 'error', 'message': 'Internal server error'} with status 500.
GetStatusForeign(i) ==
    /\ i \in PollIds
    /\ lastPoll' = [id |-> i, status |-> "error"]
    /\ UNCHANGED <<plans, nextPlanId, run, llmCalls>>
    /\ UNCHANGED <<monVars, budgetVars, genVars>>

\* What the owner posts to the update form: the trip as it is, another
\* destination, a shorter stay, a negative budget.
UpdateSubmissions ==
    { ParisTrip,
      [ParisTrip EXCEPT !.destination = "Oslo"],
      [ParisTrip EXCEPT !.duration = 1],
      [ParisTrip EXCEPT !.budget = 0 - 1] }

\* TripRequestUpdateView.post by the owner: a valid form is saved over the
\* row (form.save() with instance=trip_request) and a Ticket is created;
\* an invalid form is shown again.  Neither the threads nor the
\* GeneratedPlan table are looked at.
TripRequestUpdatePost(t, s) ==
    /\ t \in TripIds
    /\ tickets < MaxTickets
    /\ IF FormIsValid(s)
       THEN /\ trips' = [trips EXCEPT ![t] = s]
            /\ tickets' = tickets + 1
       ELSE UNCHANGED <<trips, tickets>>
    /\ UNCHANGED <<llm, out, input, render, epCache, ep, served, stats, keyed>>
    /\ UNCHANGED <<jobVars, monVars, budgetVars>>

\* Generation for trip t has started: a thread runs or ran for it.
GenerationStarted(t) ==
    \/ \E r \in Runs : run[r].pc # "idle" /\ run[r].trip = t
    \/ llmCalls[t] > 0

\* CostMonitor.get_cache_stats: cache.get(key, 0) of both counters,
\* hit_rate = (hits / total * 100) if total > 0 else 0.
GetCacheStats ==
    /\ ~stats.asked
    /\ LET hits == cacheHits
           misses == cacheMisses
           total == hits + misses
       IN  stats' = [asked |-> TRUE, hits |-> hits, misses |-> misses,
                     hit_rate |-> IF total > 0
                                  THEN [num |-> hits * 100, den |-> total]
                                  ELSE [num |-> 0, den |-> 1]]
    /\ UNCHANGED <<trips, llm, out, input, render, epCache, ep, served, tickets, keyed>>
    /\ UNCHANGED <<jobVars, monVars, budgetVars>>

\* Values of a name, city, destination or country argument: nothing, a
\* letter, the separator, a letter followed by the separator.
ArgValues == { << >>, <<"x">>, <<":">>, <<"x", ":">> }

\* The argument tuples of the two call sites of _get_cache_key that take
\* free text: get_place_details_cached (location_name, destination_city or
\* "") and generate_optimized_trip_plan_cached (destination, country or "",
\* str(duration), str(budget), str(number_of_travelers), interests or "",
\* transportation_preferences or "", experience_style or "").
Invocations ==
    { [operation |-> "place_details", args |-> <<n, c>>] : n, c \in ArgValues }
      \cup
    { [operation |-> "trip_plan",
       args |-> <<d, c, Digits(ParisTrip.duration),
                  Digits(ParisTrip.budget) \o <<".", "0", "0">>,
                  Digits(ParisTrip.travelers), << >>, << >>, << >>>>] :
        d, c \in ArgValues }

RECURSIVE JoinArgs(_)
\* ':'.join(str(arg) for arg in args)
JoinArgs(args) ==
    IF args = << >> THEN << >>
    ELSE IF Len(args) = 1 THEN Head(args)
    ELSE Head(args) \o <<":">> \o JoinArgs(Tail(args))

\* _get_cache_key of both services: the md5 digest of
\* f"{operation}:{':'.join(...)}" behind the prefix of the service.  The
\* digest is kept as the text it was taken of (md5 taken as free of
\* collisions).
GetCacheKey(operation, args) ==
    [prefix |-> IF operation = "trip_plan" THEN "ai_" ELSE "gmaps_",
     md5 |-> <<operation, ":">> \o JoinArgs(args)]

\* The keys of two invocations, computed one after the other.
GetCacheKeys(a, b) ==
    /\ keyed = NoKeys
    /\ keyed' = [first |-> a, second |-> b,
                 keys |-> <<GetCacheKey(a.operation, a.args),
                            GetCacheKey(b.operation, b.args)>>]
    /\ UNCHANGED <<trips, llm, out, input, render, epCache, ep, served, tickets, stats>>
    /\ UNCHANGED <<jobVars, monVars, budgetVars>>

(***************************************************************************)
(* Specifications.                                                         *)
(***************************************************************************)
Init == JobInit /\ MonInit /\ BudgetInit /\ GenInit
Next == JobNext
Spec == Init /\ [][Next]_vars

\* Every started thread keeps running, and the loading page keeps polling.
FairSpec ==
    /\ Spec
    /\ \A r \in Runs : WF_vars(RunStep(r))
    /\ \A i \in PollIds : WF_vars(GetStatus(i))

\* Threads calling track_api_call while time passes.
TrackSpec == Init /\ [][TrackNext]_vars

\* should_allow_api_call for every value the counter of one service can have.
GuardInit ==
    /\ JobInit
    /\ BudgetInit
    /\ GenInit
    /\ now = 0
    /\ \E s \in Services :
         \E e \in {Absent} \cup {[val |-> c, exp |-> DayTicks] : c \in 1 .. MaxCount} :
            daily = [k \in Services \X Days |-> IF k = <<s, 0>> THEN e ELSE Absent]
    /\ hourly = [k \in Services \X Hours |-> Absent]
    /\ trk = [p \in Trackers |-> IdleTrk]
    /\ calls = [k \in Services \X Days |-> 0]
    /\ allowed = [svc |-> "none", result |-> FALSE, raised |-> FALSE]
GuardSpec == GuardInit /\ [][GuardNext]_vars

\* The paid call sites, called in any order on one day.
BudgetSpec == Init /\ [][BudgetNext]_vars

\* The counters of day 0 are absent, or that of 'google_maps' is at the limit.
QuotaInit ==
    /\ JobInit
    /\ BudgetInit
    /\ GenInit
    /\ now = 0
    /\ \E full \in BOOLEAN :
         daily = [k \in Services \X Days |->
                    IF full /\ k = <<"google_maps", 0>>
                    THEN [val |-> daily_limit, exp |-> DayTicks] ELSE Absent]
    /\ hourly = [k \in Services \X Hours |-> Absent]
    /\ trk = [p \in Trackers |-> IdleTrk]
    /\ calls = [k \in Services \X Days |-> 0]
    /\ allowed = [svc |-> "none", result |-> FALSE, raised |-> FALSE]

\* Place lookups through the cache, over the lifetime of a place entry.
PlaceSpec == QuotaInit /\ [][PlaceNext]_vars

\* Trip plans and autocompletions through the cache, over the same time.
PlanSpec == Init /\ [][PlanNext]_vars

\* Admission checks and place lookups while the cache backend comes and goes.
OutageSpec == QuotaInit /\ [][OutageNext]_vars

\* The job for a saved trip request to Paris of at most one day: the rows
\* with the smallest duration, party and budget the form lets through.
FormInit ==
    /\ JobInit
    /\ MonInit
    /\ BudgetInit
    /\ trips \in [TripIds -> {s \in SavedTrips :
                                s.destination = "Paris" /\ s.duration <= 1}]
    /\ llm = "up"
    /\ out = NoOutput
    /\ input = NoText
    /\ render = IdleRender
    /\ WebInit
FormSpec == FormInit /\ [][JobNext]_vars

\* The template generators on their own, for any saved trip request.
FallbackInit ==
    /\ JobInit
    /\ MonInit
    /\ BudgetInit
    /\ trips \in [TripIds -> SavedTrips]
    /\ llm = "up"
    /\ out = NoOutput
    /\ input = NoText
    /\ render = IdleRender
    /\ WebInit
FallbackNext ==
    \/ \E g \in Generators, t \in TripIds : Generate(g, t)
    \/ GenerateReturn
FallbackSpec == FallbackInit /\ [][FallbackNext]_vars

\* Both ways of asking for a generation, for a trip that has no plan yet or
\* one whose text came from the LLM, while the LLM is out of quota.
OptimizedInit ==
    /\ MonInit
    /\ BudgetInit
    /\ run = [r \in Runs |-> IdleRun]
    /\ llmCalls = [t \in TripIds |-> 0]
    /\ lastPoll = [id |-> 0, status |-> "none"]
    /\ \E rows \in {{}} \cup {{[id |-> 1, trip |-> 1, content |-> Strip(raw), pdf |-> d]} :
                               raw \in LLMTexts, d \in {"none", "pdf"}} :
         /\ plans = rows
         /\ nextPlanId = Cardinality(rows) + 1
    /\ trips = [t \in TripIds |-> ParisTrip]
    /\ llm = "quota"
    /\ out = NoOutput
    /\ input = NoText
    /\ render = IdleRender
    /\ WebInit
OptimizedNext ==
    \/ JobNext
    \/ \E t \in TripIds : CostOptimizedTripGeneration(t)
OptimizedSpec == OptimizedInit /\ [][OptimizedNext]_vars

\* The job, status polls of other users and updates of the trip request.
WebNext ==
    \/ JobNext
    \/ \E i \in PollIds : GetStatusForeign(i)
    \/ \E t \in TripIds, s \in UpdateSubmissions : TripRequestUpdatePost(t, s)
WebSpec == Init /\ [][WebNext]_vars

\* get_cache_stats asked for every pair of counter values up to MaxStat.
StatsInit ==
    /\ JobInit
    /\ MonInit
    /\ GenInit
    /\ extCalls = [s \in Services |-> 0]
    /\ placeCache = [l \in Locations |-> NoEntry]
    /\ acCache = [q \in Queries |-> NoEntry]
    /\ planCache = [k \in PlanKeys |-> NoPlanEntry]
    /\ cacheHits \in 0 .. MaxStat
    /\ cacheMisses \in 0 .. MaxStat
    /\ req = [p \in Requests |-> IdleReq]
    /\ started = 0
    /\ storeUp = TRUE
    /\ resolved = [l \in Locations |-> Never]
    /\ failed = [l \in Locations |-> Never]
    /\ generated = [k \in PlanKeys |-> [at |-> Never, text |-> NoText]]
StatsNext == GetCacheStats
StatsSpec == StatsInit /\ [][StatsNext]_vars

\* The cache keys of every two invocations.
KeyNext == \E a, b \in Invocations : GetCacheKeys(a, b)
KeySpec == Init /\ [][KeyNext]_vars

\* Cached plan generations while time passes.
ItineraryNext ==
    \/ Elapse
    \/ \E p \in Requests : PlanStep(p)
ItinerarySpec == Init /\ [][ItineraryNext]_vars

\* Requests to the autocomplete endpoint while time passes.
EndpointNext ==
    \/ Tick
    \/ \E p \in Requests : EndpointStep(p)
EndpointSpec == Init /\ [][EndpointNext]_vars

\* The renderers and the link functions on their own, for the texts of
\* RenderTexts.
RenderInit ==
    /\ JobInit
    /\ MonInit
    /\ BudgetInit
    /\ trips = [t \in TripIds |-> ParisTrip]
    /\ llm = "up"
    /\ out = NoOutput
    /\ input \in RenderTexts
    /\ render = IdleRender
    /\ WebInit
RenderNext ==
    \/ \E f \in Renderers, t \in TripIds : RenderBegin(f, t)
    \/ RenderLookup
    \/ RenderContent
    \/ RenderLink
    \/ RenderBuild
    \/ RenderStore
    \/ RenderReturn
    \/ \E a \in Answers : GenerateGoogleMapsLink(a)
    \/ GenerateGoogleMapsLinkSimple
RenderSpec == RenderInit /\ [][RenderNext]_vars

\* extract_locations_from_text on its own, for the texts of ExtractTexts.
ExtractInit ==
    /\ JobInit
    /\ MonInit
    /\ BudgetInit
    /\ trips = [t \in TripIds |-> ParisTrip]
    /\ llm = "up"
    /\ out = NoOutput
    /\ input \in ExtractTexts
    /\ render = IdleRender
    /\ WebInit
ExtractNext ==
    \/ \E x \in Extractors : ExtractLocationsFromText(x)
    \/ GenerateReturn
ExtractSpec == ExtractInit /\ [][ExtractNext]_vars

\* The job for the Paris trip while the LLM account is out of quota.
QuotaOutInit ==
    /\ JobInit
    /\ MonInit
    /\ BudgetInit
    /\ trips = [t \in TripIds |-> ParisTrip]
    /\ llm = "quota"
    /\ out = NoOutput
    /\ input = NoText
    /\ render = IdleRender
    /\ WebInit
QuotaOutSpec ==
    /\ QuotaOutInit
    /\ [][JobNext]_vars
    /\ \A r \in Runs : WF_vars(RunStep(r))
    /\ \A i \in PollIds : WF_vars(GetStatus(i))

(***************************************************************************)
(* Claims about the job orchestrator.                                      *)
(***************************************************************************)
\* A run that is past the duplicate check and inside the pipeline.
InPipeline(r) == run[r].pc \in {"llm", "goc", "create", "save"}
RunsInPipeline(t) == {r \in Runs : InPipeline(r) /\ run[r].trip = t}

\* C1: for every trip, the status polls and the background runs they start
\* result in at most one call to the LLM collaborator in total: whenever a
\* run makes the first call of its retry loop, no call has been made for
\* that trip before.  (The retries of a single run are left out, so that a
\* violation shows two runs calling the LLM.)
C1_AtMostOneLLMCall ==
    [][\A r \in Runs :
          (RunLLM(r) /\ run[r].attempt = 0) => llmCalls[run[r].trip] = 0]_vars

\* C2: at any moment at most one generation pipeline run is executing for a
\* given trip.
C2_AtMostOneRun == \A t \in TripIds : Cardinality(RunsInPipeline(t)) <= 1

\* C3: a status poll for an existing trip request answers "completed" if and
\* only if an artifact is persisted for it whose content, trimmed, is longer
\* than 50 characters, and answers "generating" in every other case.
C3_StatusIffComplete ==
    [][\A t \in TripIds :
          GetStatus(t) =>
            lastPoll'.status =
              IF \E p \in plans : p.trip = t /\ Len(Strip(p.content)) > CompleteThreshold
              THEN "completed" ELSE "generating"]_vars

\* C3 witness: a poll answered "completed" on the fallback text, whose first
\* and last characters are blanks.
C3_Witness ==
    /\ lastPoll = [id |-> 1, status |-> "completed"]
    /\ \E p \in plans : p.trip = 1 /\ p.content = FallbackText(1)

\* C4: while the status of an existing trip request keeps being polled, the
\* answer is never "error" and is eventually "completed", whatever the LLM
\* and Places collaborators do.
C4_EventuallyCompleted ==
    /\ [](lastPoll.status = "error" => lastPoll.id \notin TripIds)
    /\ \A t \in TripIds : <>(lastPoll = [id |-> t, status |-> "completed"])

\* C5: once a poll has answered "completed" for a trip, every later poll for
\* that trip answers "completed" too.
C5_CompletedStays ==
    [][\A t \in TripIds :
          (lastPoll = [id |-> t, status |-> "completed"] /\ lastPoll'.id = t)
            => lastPoll'.status = "completed"]_vars

\* C6: in every reachable state there is at most one GeneratedPlan row per
\* trip request.
C6_OnePlanPerTrip == \A t \in TripIds : Cardinality(PlansOf(t)) <= 1

\* C6 witness: a run whose INSERT lost the race, and still a single row.
C6_Witness ==
    \E r \in Runs : run[r].integrityError /\ Cardinality(PlansOf(run[r].trip)) = 1

(***************************************************************************)
(* Claims about the cost monitor and the paid call sites.                  *)
(***************************************************************************)
\* C7: on one day, for each paid service (the LLM, the Places text search,
\* the Places autocomplete), the number of requests actually sent to the
\* service never exceeds the daily limit of 100.
C7_CallsWithinDailyLimit == \A s \in Services : extCalls[s] <= daily_limit

\* C8: should_allow_api_call answers true exactly when today's counter of
\* the service is below the limit, a counter without an entry counting as 0;
\* so it answers true at 99 and false at 100 and above.
C8_AllowIffBelowLimit ==
    [][\A s \in Services :
          ShouldAllow(s) =>
            (allowed'.result <=>
               (IF daily[<<s, Day(now)>>].exp > now
                THEN daily[<<s, Day(now)>>].val ELSE 0) < daily_limit)]_vars

\* C8 witness: the call was refused with the counter exactly at the limit.
C8_Witness ==
    /\ allowed = [svc |-> "openai", result |-> FALSE, raised |-> FALSE]
    /\ Live(daily[<<"openai", Day(now)>>])
    /\ daily[<<"openai", Day(now)>>].val = daily_limit

\* No thread is inside track_api_call.
Quiescent == \A p \in Trackers : trk[p].pc = "idle"

\* C9: track_api_call increments today's counter atomically: once the
\* invocations made today have all returned, the counter equals their number,
\* and within one day the counter never decreases.
C9_TrackCallAtomic ==
    /\ [](Quiescent => \A s \in Services : TodayCount(s) = calls[TodayKey(s)])
    /\ [][Day(now') = Day(now) =>
            \A s \in Services : TodayCount(s)' >= TodayCount(s)]_vars

\* C10: the invocations of track_api_call before and after midnight move two
\* different counters: the counter of a date never exceeds the number of
\* invocations keyed to that date, so that the counter read after midnight
\* starts at 0 whatever was counted the day before; and after midnight the
\* counter of the day before has no entry any more.
C10_DayBoundary ==
    /\ \A s \in Services, d \in Days :
          CacheGet(daily[<<s, d>>], 0) <= calls[<<s, d>>]
    /\ \A s \in Services, d \in Days :
          d < Day(now) => ~Live(daily[<<s, d>>])

\* C11: the hourly counter is incremented or initialised atomically: once
\* the invocations of track_api_call have all returned, the hourly counters
\* of a service add up to the number of invocations made for it (no hourly
\* entry expires before the clock stops).
C11_HourlyCounterAtomic ==
    Quiescent =>
      \A s \in Services :
         SumOver([h \in Hours |-> CacheGet(hourly[<<s, h>>], 0)], Hours)
           = SumOver([d \in Days |-> calls[<<s, d>>]], Days)

(***************************************************************************)
(* Claims about the cached call sites.                                     *)
(***************************************************************************)
\* C12: while the cache backend is down, should_allow_api_call does not
\* raise and answers true, and a place lookup that needs its answer does
\* not end in an exception.
C12_FailOpen ==
    [][/\ \A s \in Services :
             (ShouldAllow(s) /\ ~storeUp) => (allowed'.result /\ ~allowed'.raised)
       /\ \A p \in Requests, l \in Locations :
             (GetPlaceDetailsCachedBegin(p, l) /\ ~storeUp) => req'[p].ret # "raised"]_vars

\* C13: a cached call site sends its external request (the Places text
\* search, the Places autocomplete, the LLM completion) only in an
\* operation in which should_allow_api_call was asked and answered true.
C13_AdmittedBeforeCall ==
    [][\A p \in Requests :
          (\/ GetPlaceDetailsCachedFinish(p)
           \/ GetAutocompleteCachedFinish(p)
           \/ GeneratePlanCachedFinish(p)) => req[p].admitted]_vars

\* C14: every cache lookup of a place reports exactly one hit or one miss:
\* each lookup raises the sum of the hit and miss counters by one, also when
\* its external request is then refused by the quota.
C14_LookupReported ==
    [][\A p \in Requests, l \in Locations :
          GetPlaceDetailsCachedBegin(p, l) =>
            cacheHits' + cacheMisses' = cacheHits + cacheMisses + 1]_vars

\* C15: for an hour after a place lookup ended without a place (nothing
\* found, or a failed request), a lookup of the same place sends no request
\* to Places and returns no place.
C15_NegativeCached ==
    [][\A p \in Requests, l \in Locations :
          (/\ GetPlaceDetailsCachedBegin(p, l)
           /\ failed[l] # Never
           /\ now < failed[l] + negative_cache_hours * TicksPerUnit
           /\ resolved[l] = Never)
            => (req'[p].pc = "idle" /\ req'[p].ret = "None")]_vars

\* C17: for 7 days after the details of a place were stored, a lookup of
\* the same place returns the stored details and sends no request to Places.
C17_PlaceCachedSevenDays ==
    [][\A p \in Requests, l \in Locations :
          (/\ GetPlaceDetailsCachedBegin(p, l)
           /\ resolved[l] # Never
           /\ now < resolved[l] + place_cache_days * DayTicks)
            => (req'[p].pc = "idle" /\ req'[p].ret = "details")]_vars

\* C16: for 3 days after the LLM gave the text of a trip plan, generating a
\* plan for the same trip parameters returns that text and sends no request
\* to the LLM.
C16_PlanCachedThreeDays ==
    [][\A p \in Requests, k \in PlanKeys :
          (/\ GeneratePlanCachedBegin(p, k)
           /\ generated[k].at # Never
           /\ now < generated[k].at + plan_cache_days * DayTicks)
            => (/\ req'[p].pc = "idle"
                /\ req'[p].ret = "text"
                /\ req'[p].text = generated[k].text)]_vars

(***************************************************************************)
(* Claims about the retry loop of the LLM call.                            *)
(***************************************************************************)
\* C18: one invocation of the text generation sends at most 3 requests to
\* the LLM (the attempts 0, 1 and 2), sends none after a request that was
\* answered, and comes to an end, at the latest with the third failure.
C18_AtMostThreeAttempts ==
    /\ [][\A r \in Runs :
            RunLLM(r) =>
              /\ run[r].attempt < max_retries
              /\ run'[r].text \in {Strip(raw) : raw \in LLMTexts} => run'[r].pc # "llm"
              /\ run'[r].pc = "llm" =>
                   (run'[r].attempt = run[r].attempt + 1 /\ run'[r].attempt < max_retries)]_vars
    /\ \A r \in Runs : (run[r].pc = "llm") ~> (run[r].pc # "llm")

\* C18 witness: a run left the loop with the fallback text after its third
\* attempt.
C18_Witness ==
    \E r \in Runs :
       /\ run[r].pc = "goc"
       /\ run[r].attempt = max_retries - 1
       /\ run[r].text = FallbackText(run[r].trip)

\* C19: a quota or rate-limit failure is not retried: no run is about to
\* send another request after a request that failed with a quota error.
C19_QuotaNotRetried ==
    \A r \in Runs : ~(run[r].pc = "llm" /\ run[r].err = "quota")

\* C20: whatever the LLM does (an answer with any text, the empty one
\* included, or a failure of any kind), the text generation returns a text
\* that is not empty, and does not raise.
C20_NonEmptyText ==
    [][\A p \in Requests :
          GeneratePlanCachedFinish(p) =>
            (req'[p].ret = "text" /\ req'[p].text # << >>)]_vars


(***************************************************************************)
(* Claims about the trip request form and the template generators.         *)
(***************************************************************************)
\* C21: a trip request whose duration is not positive, whose traveler count
\* is below 1 or whose budget is negative is rejected before any external
\* call is attempted: no run ever calls the LLM for such a trip request, and
\* no run ends on it with an arithmetic error.
C21_InvalidTripRejected ==
    \A t \in TripIds :
        (trips[t].duration <= 0 \/ trips[t].travelers < 1 \/ trips[t].budget < 0)
          => /\ llmCalls[t] = 0
             /\ \A r \in Runs : run[r].err # "ZeroDivisionError"

\* Reading a generated text: a day header is a line that starts with "Day "
\* and a number; its block runs up to the next header or the end of the
\* text; a daily-total line is "$<amount> per person".
HeaderAt(s, i) ==
    /\ i + 4 <= Len(s)
    /\ i = 1 \/ s[i - 1] = "\n"
    /\ SubSeq(s, i, i + 3) = <<"D", "a", "y", " ">>
    /\ IsDigit(s[i + 4])
HeaderPositions(s) == {i \in 1 .. Len(s) : HeaderAt(s, i)}
RECURSIVE ParseNat(_, _, _)
ParseNat(s, j, acc) ==
    IF j <= Len(s) /\ IsDigit(s[j])
    THEN ParseNat(s, j + 1, 10 * acc + DigitValue(s[j]))
    ELSE acc
HeaderDay(s, i) == ParseNat(s, i + 4, 0)
BlockEnd(s, i) ==
    LET later == {j \in HeaderPositions(s) : j > i}
    IN  IF later = {} THEN Len(s) + 1
        ELSE CHOOSE j \in later : \A k \in later : j <= k
TotalAt(s, j) ==
    /\ s[j] = "$"
    /\ \E k \in j + 2 .. Len(s) - Len(PerPerson) + 1 :
          /\ \A d \in j + 1 .. k - 1 : IsDigit(s[d])
          /\ SubSeq(s, k, k + Len(PerPerson) - 1) = PerPerson
HasTotal(s, i) == \E j \in i .. BlockEnd(s, i) - 1 : TotalAt(s, j)
\* The amount of a daily-total line at j.
TotalAmount(s, j) == ParseNat(s, j + 1, 0)

\* C22: for every trip request with a duration of at least 1, the text a
\* template fallback generator produces contains exactly duration day
\* blocks, one for each day 1 .. duration with none repeated or missing,
\* and each block has its own daily-total line.
C22_OneBlockPerDay ==
    (out.gen # "none" /\ out.raised = "none" /\ trips[out.trip].duration >= 1)
      => /\ Cardinality(HeaderPositions(out.text)) = trips[out.trip].duration
         /\ \A d \in 1 .. trips[out.trip].duration :
               \E i \in HeaderPositions(out.text) :
                  HeaderDay(out.text, i) = d /\ HasTotal(out.text, i)

\* The persisted text of trip t has n day headers and a daily-total line of
\* the given amount per person.
PersistedWith(t, n, amount) ==
    \E p \in plans :
       /\ p.trip = t
       /\ Cardinality(HeaderPositions(p.content)) = n
       /\ \E j \in 1 .. Len(p.content) :
             TotalAt(p.content, j) /\ TotalAmount(p.content, j) = amount

\* C23: for the trip request Paris, 3 days, budget 900, 2 travelers and an
\* LLM that fails every request with a quota error, a status poll eventually
\* answers "completed" while the persisted text has exactly 3 day headers
\* and a cost of 150 per day and person.
C23_ParisFallbackCompleted ==
    <>(/\ lastPoll = [id |-> 1, status |-> "completed"]
       /\ PersistedWith(1, ParisTrip.duration, 150))

\* C24: when the renderer fails while a run persists its text, the run
\* still ends normally and the artifact is persisted with the generated
\* text as content and, when the file could be stored, a plain-text
\* document in place of the rendered one; the status computed from then on
\* is that of the generated text.
C24_RenderFailureKeepsContent ==
    [][\A r \in Runs, t \in TripIds, stored \in BOOLEAN :
          (run[r].trip = t /\ Renders(r) /\ RunSaveWith(r, TRUE, stored)) =>
              /\ run'[r] = IdleRun
              /\ \E p \in plans' :
                    /\ p.trip = t
                    /\ p.content = run[r].text
                    /\ stored => p.pdf = "txt"
              /\ StatusFor(t)' =
                    IF IsCompleteContent(run[r].text) THEN "completed"
                    ELSE "generating"]_vars

\* C24 witness: a poll answered "completed" on a plan whose document is the
\* plain-text file.
C24_Witness ==
    \E p \in plans :
       /\ p.pdf = "txt"
       /\ IsCompleteContent(p.content)
       /\ lastPoll = [id |-> p.trip, status |-> "completed"]

\* C25: a request for generation for a trip whose plan is complete (content,
\* trimmed, longer than 50 characters) does nothing: the poll starts no
\* run, a run that starts ends at once, cost_optimized_trip_generation
\* returns, and none of them calls the LLM or the Places API or changes
\* the content of the plan.
C25_CompleteIsNoOp ==
    [][\A t \in TripIds :
          (PlanComplete(t)
           /\ \/ GetStatus(t)
              \/ \E r \in Runs : run[r].trip = t /\ RunStart(r)
              \/ CostOptimizedTripGeneration(t))
            => /\ llmCalls' = llmCalls
               /\ extCalls' = extCalls
               /\ \A r \in Runs : run'[r].pc \in {"idle", run[r].pc}
               /\ \E p \in plans' : p.trip = t /\ p.content = PlanOf(t).content]_vars

\* ---------------------------------------------------------------------
\* Claims about the renderers' place lookups and the map links
\* ---------------------------------------------------------------------

\* C26: when place lookups failed during a rendering, every location handed
\* to place resolution was still looked up, exactly those whose lookup gave
\* a place are enriched, a document came back, and the caller's save (unless
\* the storage itself failed in cost_optimized_trip_generation) left the
\* plan with the generated text as its content.
C26_LookupFailureKeepsArtifact ==
    (render.pc = "done" /\ \E l \in DOMAIN render.answers : render.answers[l] = "raised")
      => /\ DOMAIN render.answers = render.todo
         /\ render.details = {l \in render.todo : render.answers[l] = "place"}
         /\ render.doc \in {"pdf", "txt"}
         /\ (render.renderer = "generate_trip_plan_pdf" \/ render.stored = "first")
              => \E p \in plans : p.trip = render.trip /\ p.content = render.text

\* C26 witness: generate_trip_plan_pdf returned the PDF for the text with
\* three places after one lookup failed and another gave a place, and the
\* plan holds the text.
C26_Witness ==
    /\ render.pc = "done"
    /\ render.renderer = "generate_trip_plan_pdf"
    /\ render.text = ThreePlaces
    /\ render.doc = "pdf"
    /\ \E a, b \in render.todo :
         /\ render.answers[a] = "raised"
         /\ render.answers[b] = "place"
         /\ b \in render.details
    /\ \E p \in plans : p.trip = render.trip /\ p.content = ThreePlaces /\ p.pdf = "pdf"

\* C27: a rendering hands at most 5 locations to place resolution.
C27_AtMostFiveResolved ==
    Cardinality(DOMAIN render.answers) <= MaxEnrich

\* C28: a link function never raises, returns the URL by place_id exactly
\* when the lookup resolved a place_id, and a search URL comes without any
\* request to the Places API.
C28_SearchLinkIsFree ==
    render.link.fn # "none"
      => /\ ~render.link.raised
         /\ render.link.url = "place_id" <=> render.link.answer = "place"
         /\ render.link.url = "search" => render.link.calls = 0

\* ---------------------------------------------------------------------
\* Claims about extract_locations_from_text
\* ---------------------------------------------------------------------

\* C29: for the line "Visit Eiffel Tower and explore Louvre Museum today",
\* in each spelling of upper and lower case, either extractor returns
\* exactly two elements, Eiffel Tower and Louvre Museum (in the case of
\* the input).
C29_TwoLocations ==
    (out.gen \in Extractors /\ input \in Sentences)
      => /\ Cardinality(out.locations) = 2
         /\ {LowerText(l) : l \in out.locations}
              = {LowerText(EiffelTower), LowerText(LouvreMuseum)}

\* C30: the result of extract_locations_from_text holds no two different
\* elements that are equal once lower-cased and trimmed.
C30_CaseInsensitiveDedup ==
    out.gen \in Extractors
      => \A a, b \in out.locations :
            LowerText(Strip(a)) = LowerText(Strip(b)) => a = b

C32_ForeignStatusNotFound ==
    [][\A t \in TripIds :
          GetStatusForeign(t)
            => (/\ HttpStatus(lastPoll'.status) \in {403, 404}
                /\ run' = run
                /\ plans' = plans)]_vars

\* C33: no step changes the fields of a trip request for which a generation
\* thread has been started or a GeneratedPlan row exists.
C33_TripImmutableOnceStarted ==
    [][\A t \in TripIds :
          (GenerationStarted(t) \/ HasPlan(t)) => trips'[t] = trips[t]]_vars

\* C34: the hit rate get_cache_stats reports is hits / (hits + misses), a
\* ratio between 0 and 1, when hits + misses > 0, and 0 when both counters
\* are zero or absent.
C34_HitRateIsRatio ==
    stats.asked =>
        IF stats.hits + stats.misses > 0
        THEN /\ stats.hit_rate.num * (stats.hits + stats.misses)
                  = stats.hits * stats.hit_rate.den
             /\ 0 <= stats.hit_rate.num
             /\ stats.hit_rate.num <= stats.hit_rate.den
        ELSE stats.hit_rate.num = 0

\* C35: a lookup of a place whose name holds none of the keywords of
\* _is_important_location sends the search request only, never the details
\* (photo) request, whichever of the two lookup functions runs it.
C35_PhotoCallOnlyWhenImportant ==
    [][\A l \in Locations :
          (/\ ~IsImportantLocation(l)
           /\ \/ GetPlaceDetails(l)
              \/ \E p \in Requests : req[p].arg = l /\ GetPlaceDetailsCachedFinish(p))
            => extCalls'["google_maps"] <= extCalls["google_maps"] + 1]_vars

\* C37: today's counter of every service equals the number of requests sent
\* to that service today.
C37_CounterTracksCalls ==
    \A svc \in Services : TodayCount(svc) = extCalls[svc]

\* C36: two invocations that differ in the operation name or in the tuple
\* of arguments never get the same cache key.
C36_CacheKeyInjective ==
    (keyed # NoKeys /\ keyed.first # keyed.second)
        => keyed.keys[1] # keyed.keys[2]

\* C38: the template text is never in the plan cache; a call of
\* generate_optimized_trip_plan_cached that returns the template leaves the
\* plan cache as it was; and a call that finds no text under its key goes on
\* to the LLM.
C38_FallbackNotCached ==
    /\ [](\A k \in PlanKeys : planCache[k].val # TemplatePlan)
    /\ [][\A p \in Requests :
            (GeneratePlanCachedFinish(p) /\ req'[p].text = TemplatePlan)
              => planCache' = planCache]_vars
    /\ [][\A p \in Requests, k \in PlanKeys :
            (/\ GeneratePlanCachedBegin(p, k)
             /\ storeUp
             /\ CacheGet(planCache[k], << >>) = << >>)
              => req'[p].pc = "generate"]_vars

\* C38 witness: the first generation sent its request, failed and returned
\* the template (nothing was ever generated for the key); the same thread,
\* called again, is on its way to the LLM.
C38_Witness ==
    \E k \in PlanKeys :
      /\ req[1].pc = "generate"
      /\ req[1].arg = k
      /\ req[2] = IdleReq
      /\ started = 2
      /\ extCalls["openai"] = 1
      /\ generated[k].at = Never
      /\ planCache[k] = NoPlanEntry

====
